---- MODULE Spec2Model ----
(***************************************************************************)
(* Screen-stack UI runtime and serial line bridge of the Cardputer         *)
(* firmware: the screens under src/ (wardrive, channel-time, network-info, *)
(* data-detail, handshaker, text-input, uart-pins) driven by a screen      *)
(* manager and a single-slot line bridge.  Three execution contexts act on *)
(* the state: the main loop (keys, ticks), the UART receive task (lines)   *)
(* and the esp_timer task (refresh timers).                                *)
(*                                                                         *)
(* Every handler is an operator from a world record to a world record, so  *)
(* that nested calls (on_key -> screen_manager_pop -> on_destroy ->        *)
(* uart_clear_line_callback -> free) compose in the order of the source.   *)
(* Each handler appends the primitive calls it makes to the trace `tr`,    *)
(* which holds the calls of the latest handler only.                       *)
(***************************************************************************)
EXTENDS Integers, Sequences, FiniteSets, TLC

VARIABLES
    stack,      \* screen manager: ids of the screens, last = active
    scr,        \* id -> screen object and its context block
    slot,       \* line bridge: the registered (callback, context) pair
    npush,      \* successful screen_manager_push calls so far
    npop,       \* screen_manager_pop calls that destroyed a screen so far
    wifi,       \* uart_set_wifi_connected status
    cx,         \* execution context of the latest handler
    op,         \* the latest handler
    tr,         \* primitive calls made by the latest handler, in order
    inflight    \* callbacks entered in the receive or timer task, not yet run

vars == <<stack, scr, slot, npush, npop, wifi, cx, op, tr, inflight>>

----------------------------------------------------------------------------
(* Bounds *)

\* screen blocks the heap can hold at a time (the root included)
MaxIds == 3
\* successful pushes over one run
MaxPush == 3
\* capacity of the text-input buffer (TEXT_INPUT_MAX_LEN, header not in src)
MaxInputLen == 1
\* cap of the per-screen count of dirty-flag sets between two ticks
MaxDirty == 2

\* cap of the wardrive unique_networks counter
MaxNetworks == 2

RootId == 1
Ids == 1..MaxIds

----------------------------------------------------------------------------
(* Strings are sequences of one-character strings. *)

S_min == <<"m","i","n">>
S_max == <<"m","a","x">>
S_SUCCESS == <<"S","U","C","C","E","S","S",":">>
S_Connected == <<"C","o","n","n","e","c","t","e","d">>
S_FAILED == <<"F","A","I","L","E","D",":">>
S_handshake == <<"C","o","m","p","l","e","t","e"," ","4","-","w","a","y"," ",
                 "h","a","n","d","s","h","a","k","e"," ","s","a","v","e","d"," ",
                 "f","o","r"," ","S","S","I","D",":"," ">>
S_fix_obtained == <<"G","P","S"," ","f","i","x"," ","o","b","t","a","i","n","e","d">>
S_fix_lost == <<"G","P","S"," ","f","i","x"," ","l","o","s","t">>
S_fix_recovered == <<"G","P","S"," ","f","i","x"," ","r","e","c","o","v","e","r","e","d">>
S_still_waiting == <<"S","t","i","l","l"," ","w","a","i","t","i","n","g"," ","f","o","r"," ",
                     "G","P","S"," ","f","i","x">>
S_promisc == <<"W","a","r","d","r","i","v","e"," ","p","r","o","m","i","s","c",":">>

S_Lat == <<"L","a","t","=">>
S_Lon == <<"L","o","n","=">>
S_GPS_Lat == <<"G","P","S",":"," ","L","a","t","=">>
S_Logged == <<"L","o","g","g","e","d"," ">>
S_networks_to == <<"n","e","t","w","o","r","k","s"," ","t","o">>

Digits == {"0","1","2","3","4","5","6","7","8","9"}

DigitVal(c) ==
    CASE c = "0" -> 0 [] c = "1" -> 1 [] c = "2" -> 2 [] c = "3" -> 3
      [] c = "4" -> 4 [] c = "5" -> 5 [] c = "6" -> 6 [] c = "7" -> 7
      [] c = "8" -> 8 [] c = "9" -> 9

\* isspace of <ctype.h>
IsSpace(c) == c \in {" ", "\t", "\n", "\r"}

\* strstr: index of the first occurrence of n in h, 0 when there is none
StrStr(h, n) ==
    LET hits == {i \in 1..(Len(h) + 1 - Len(n)) : SubSeq(h, i, i + Len(n) - 1) = n}
    IN  IF hits = {} THEN 0 ELSE CHOOSE i \in hits : \A j \in hits : i <= j

Contains(h, n) == StrStr(h, n) # 0

\* strchr from position `from`: index of the first c at or after from, 0 if none
StrChr(h, from, c) ==
    LET hits == {i \in from..Len(h) : h[i] = c}
    IN  IF hits = {} THEN 0 ELSE CHOOSE i \in hits : \A j \in hits : i <= j

\* strstr(h + from - 1, n): the first occurrence of n at or after position from
StrStrFrom(h, from, n) ==
    LET hits == {i \in from..(Len(h) + 1 - Len(n)) : SubSeq(h, i, i + Len(n) - 1) = n}
    IN  IF hits = {} THEN 0 ELSE CHOOSE i \in hits : \A j \in hits : i <= j

\* the digit run of a %d conversion starting at position i: its value
RECURSIVE DigitRun(_, _, _)
DigitRun(line, i, acc) ==
    IF i > Len(line) \/ line[i] \notin Digits THEN [val |-> acc, next |-> i]
    ELSE DigitRun(line, i + 1, acc * 10 + DigitVal(line[i]))

\* the first position at or after i that holds no white space, 0 if none
SkipSpace(line, i) ==
    LET rest == {k \in i..Len(line) : ~IsSpace(line[k])}
    IN  IF rest = {} THEN 0 ELSE CHOOSE k \in rest : \A m \in rest : k <= m

\* the result of a %d conversion from its sign and its digit run
ScanVal(neg, run) ==
    [ok |-> TRUE, val |-> IF neg THEN 0 - run.val ELSE run.val, next |-> run.next]

\* a %d conversion whose white space ended at j (0: the input ended)
ScanFrom(line, i, j) ==
    LET signed == j # 0 /\ line[j] \in {"+", "-"}
        k == IF signed THEN j + 1 ELSE j
    IN  IF j # 0 /\ k <= Len(line) /\ line[k] \in Digits
        THEN ScanVal(signed /\ line[j] = "-", DigitRun(line, k, 0))
        ELSE [ok |-> FALSE, val |-> 0, next |-> i]

\* one %d of sscanf at position i: white space is skipped, then an optional
\* sign and at least one digit; ok tells whether the conversion succeeded
ScanD(line, i) == ScanFrom(line, i, SkipSpace(line, i))

----------------------------------------------------------------------------
(* The world record and the trace of primitive calls *)

World ==
    [stack |-> stack, scr |-> scr, slot |-> slot,
     npush |-> npush, npop |-> npop, wifi |-> wifi, cx |-> cx, op |-> op, tr |-> tr]

Commit(w) ==
    /\ stack' = w.stack
    /\ scr' = w.scr
    /\ slot' = w.slot
    /\ npush' = w.npush
    /\ npop' = w.npop
    /\ wifi' = w.wifi
    /\ cx' = w.cx
    /\ op' = w.op
    /\ tr' = w.tr
    /\ inflight' = inflight

\* a handler starts in context c: the trace restarts
Enter(w, c, o) == [w EXCEPT !.cx = c, !.op = o, !.tr = <<>>]

\* one primitive call: what, on which screen, with which argument
Emit(w, e, id, a) == [w EXCEPT !.tr = Append(@, [e |-> e, id |-> id, a |-> a])]

\* the calls of one kind in a trace t, by position
Calls(t, e) == {i \in DOMAIN t : t[i].e = e}
CallsOn(t, e, id) == {i \in DOMAIN t : t[i].e = e /\ t[i].id = id}

EmptySlot == [cb |-> "none", ctx |-> 0]

\* a screen_t and its user_data block; unused fields keep their calloc zero
NoScreen ==
    [kind |-> "none", obj |-> FALSE, ctx |-> FALSE, state |-> "-",
     needs_redraw |-> FALSE, needs_push_password |-> FALSE, success |-> FALSE,
     loading |-> FALSE, loading_count |-> 0, min_value |-> 0, max_value |-> 0,
     edited_min |-> 0, edited_max |-> 0, selected |-> 0, saved |-> FALSE,
     status_msg |-> "", refresh_timer |-> "none", has_connect |-> FALSE,
     cursor_pos |-> 0, input |-> <<>>, on_submit |-> 0, password |-> <<>>,
     captured |-> <<>>, dirtied |-> 0,
     last_ssid |-> <<>>, lat |-> <<>>, lon |-> <<>>, last_log_line |-> <<>>,
     gps_wait_elapsed |-> 0, gps_wait_timeout |-> 0, unique_networks |-> 0]

Top(w) == w.stack[Len(w.stack)]

\* outcomes of the fallible calls a handler makes; ret1 and ret2 are the
\* statuses of its first and second esp_err_t call (uart_send_command,
\* settings_set_uart_pins)
Envs ==
    [alloc_screen : BOOLEAN, alloc_data : BOOLEAN, malloc_ok : BOOLEAN,
     timer_ok : BOOLEAN, ret1 : BOOLEAN, ret2 : BOOLEAN]

\* every fallible call succeeds
AllOk ==
    [alloc_screen |-> TRUE, alloc_data |-> TRUE, malloc_ok |-> TRUE,
     timer_ok |-> TRUE, ret1 |-> TRUE, ret2 |-> TRUE]

\* a params block handed to a factory: NULL or allocated by the caller
NullParams == [null |-> TRUE, valid |-> FALSE, on_submit |-> 0]
Params(valid, on_submit) == [null |-> FALSE, valid |-> valid, on_submit |-> on_submit]

----------------------------------------------------------------------------
(* Line bridge (uart_handler, not under src/): one (callback, context) slot *)

UartRegisterLineCallback(w, cb, id) ==
    Emit([w EXCEPT !.slot = [cb |-> cb, ctx |-> id]], "register", id, cb)

UartClearLineCallback_keeps_pair(w) == Emit(w, "clear", 0, "")

UartClearLineCallback(w) == Emit([w EXCEPT !.slot = EmptySlot], "clear", 0, "")

\* uart_send_command: synchronous, ok is the status it returns
UartSendCommand(w, cmd, ok) == Emit(w, IF ok THEN "send" ELSE "send_fail", 0, cmd)

UartSetWifiConnected(w, b) == Emit([w EXCEPT !.wifi = b], "wifi", 0, "")

----------------------------------------------------------------------------
(* Memory, display and timer primitives as the screens use them *)

\* draw_screen(self): reads the context block of screen id
DrawScreen(w, id) ==
    IF w.scr[id].ctx THEN Emit(w, "draw", id, w.cx) ELSE Emit(w, "uaf", id, "draw")

\* data->needs_redraw = b, written in the context of the running handler
SetNeedsRedraw(w, id, b) ==
    LET d == w.scr[id].dirtied
        w1 == [w EXCEPT !.scr[id].needs_redraw = b,
                        !.scr[id].dirtied =
                            IF b THEN (IF d < MaxDirty THEN d + 1 ELSE d) ELSE 0]
        \* a clear notes how many sets it absorbs
        w2 == IF ~b /\ d > 1 THEN Emit(w1, "absorbed", id, "many") ELSE w1
    IN  Emit(w2, IF b THEN "dirty_set" ELSE "dirty_clear", id, w.cx)

\* free(data): the block is gone, its contents are no longer the program's
FreeCtx(w, id) ==
    IF ~w.scr[id].ctx
    THEN Emit(w, "double_free", id, "ctx")
    ELSE Emit([w EXCEPT !.scr[id] =
                  [NoScreen EXCEPT !.kind = w.scr[id].kind, !.obj = w.scr[id].obj,
                                   \* the esp_timer is no part of the block
                                   !.refresh_timer = w.scr[id].refresh_timer]],
              "free_ctx", id, w.scr[id].kind)

\* the block the allocator hands out next: the lowest free one (a freed block
\* is handed out again)
FreeIds(w) == {i \in Ids : w.scr[i].kind = "none"}
NextId(w) == CHOOSE i \in FreeIds(w) : \A j \in FreeIds(w) : i <= j

\* screen_alloc(): a fresh screen_t
ScreenAlloc(w, id, kind) ==
    [w EXCEPT !.scr[id] = [NoScreen EXCEPT !.kind = kind, !.obj = TRUE]]

\* free(screen) on a factory's failure path
FreeScreen(w, id) == [w EXCEPT !.scr[id] = NoScreen]

\* calloc(1, sizeof(data)) succeeded and screen->user_data = data
CallocData(w, id) == [w EXCEPT !.scr[id].ctx = TRUE]

ParamsRead(w) == Emit(w, "params_read", 0, "")
ParamsFree(w) == Emit(w, "params_free", 0, "")

\* esp_timer_create + esp_timer_start_periodic
TimerCreateStart(w, id, ok) ==
    IF ok
    THEN Emit([w EXCEPT !.scr[id].refresh_timer = "running"], "timer_start", id, "")
    ELSE w

\* esp_timer_stop + esp_timer_delete
TimerStopDelete(w, id) ==
    Emit(Emit([w EXCEPT !.scr[id].refresh_timer = "deleted"], "timer_stop", id, ""),
         "timer_delete", id, "")

----------------------------------------------------------------------------
(* Hook tables: which hooks each screen variant installs *)

HasOnResume(kind) == kind \in {"home", "uart_pins", "channel_time", "network_info", "data_detail"}
HasOnTick(kind) == kind \in {"channel_time", "network_info", "data_detail"}


----------------------------------------------------------------------------
(* text_input_screen.c *)

\* key_to_char: the character a key types, "" for none (shift not held)
KeyToChar(key) ==
    CASE key = "Q" -> "q" [] key = "A" -> "a" [] key = "SPACE" -> " " [] OTHER -> ""

TextInputOnDestroy(w, id) == FreeCtx(w, id)

\* a factory that starts the cursor one past the empty input
TextInputScreenCreate_cursor_not_reset(w, p, env) ==
    IF p.null THEN [w |-> w, s |-> 0]
    ELSE
    LET id == NextId(w)
        w1 == ParamsRead(w)                       \* input_params->title in the log line
    IN  IF ~env.alloc_screen THEN [w |-> ParamsFree(w1), s |-> 0]
        ELSE IF ~env.alloc_data
        THEN [w |-> ParamsFree(FreeScreen(ScreenAlloc(w1, id, "text_input"), id)), s |-> 0]
        ELSE
        LET w2 == CallocData(ScreenAlloc(w1, id, "text_input"), id)
            w3 == ParamsRead(w2)                  \* title, hint, on_submit, user_data
            w4 == [w3 EXCEPT !.scr[id].on_submit = p.on_submit,
                             !.scr[id].cursor_pos = 1,
                             !.scr[id].input = <<>>]
            w5 == ParamsFree(w4)
        IN  [w |-> DrawScreen(w5, id), s |-> id]

\* a factory returns the world and the new screen's id, 0 for NULL
TextInputScreenCreate(w, p, env) ==
    IF p.null THEN [w |-> w, s |-> 0]
    ELSE
    LET id == NextId(w)
        w1 == ParamsRead(w)                       \* input_params->title in the log line
    IN  IF ~env.alloc_screen THEN [w |-> ParamsFree(w1), s |-> 0]
        ELSE IF ~env.alloc_data
        THEN [w |-> ParamsFree(FreeScreen(ScreenAlloc(w1, id, "text_input"), id)), s |-> 0]
        ELSE
        LET w2 == CallocData(ScreenAlloc(w1, id, "text_input"), id)
            w3 == ParamsRead(w2)                  \* title, hint, on_submit, user_data
            w4 == [w3 EXCEPT !.scr[id].on_submit = p.on_submit,
                             !.scr[id].cursor_pos = 0,
                             !.scr[id].input = <<>>]
            w5 == ParamsFree(w4)
        IN  [w |-> DrawScreen(w5, id), s |-> id]

----------------------------------------------------------------------------
(* network_info_screen.c (src/unnamed/part_001) *)

\* a consumer that repaints the result itself
NetworkInfoUartLineCallback_draws(w, id, line) ==
    IF ~w.scr[id].ctx THEN Emit(w, "uaf", id, "line")
    ELSE IF w.scr[id].state # "connecting" THEN w
    ELSE IF Contains(line, S_SUCCESS) /\ Contains(line, S_Connected)
    THEN LET w1 == [w EXCEPT !.scr[id].success = TRUE,
                             !.scr[id].status_msg = "Connected!",
                             !.scr[id].state = "result"]
         IN  DrawScreen(UartSetWifiConnected(w1, TRUE), id)
    ELSE IF Contains(line, S_FAILED)
    THEN LET w1 == [w EXCEPT !.scr[id].success = FALSE,
                             !.scr[id].status_msg = "Connection failed",
                             !.scr[id].state = "result"]
         IN  DrawScreen(UartSetWifiConnected(w1, FALSE), id)
    ELSE w

NetworkInfoUartLineCallback(w, id, line) ==
    IF ~w.scr[id].ctx THEN Emit(w, "uaf", id, "line")
    ELSE IF w.scr[id].state # "connecting" THEN w
    ELSE IF Contains(line, S_SUCCESS) /\ Contains(line, S_Connected)
    THEN LET w1 == [w EXCEPT !.scr[id].success = TRUE,
                             !.scr[id].status_msg = "Connected!",
                             !.scr[id].state = "result"]
         IN  SetNeedsRedraw(UartSetWifiConnected(w1, TRUE), id, TRUE)
    ELSE IF Contains(line, S_FAILED)
    THEN LET w1 == [w EXCEPT !.scr[id].success = FALSE,
                             !.scr[id].status_msg = "Connection failed",
                             !.scr[id].state = "result"]
         IN  SetNeedsRedraw(UartSetWifiConnected(w1, FALSE), id, TRUE)
    ELSE w

NetworkInfoOnDestroy(w, id) == FreeCtx(UartClearLineCallback(w), id)

NetworkInfoOnResume(w, id) == DrawScreen(Emit(w, "on_resume", id, ""), id)

\* a factory whose failure paths return without free(info_params)
NetworkInfoScreenCreate_leaks_params(w, p, env) ==
    IF p.null THEN [w |-> w, s |-> 0]
    ELSE
    LET id == NextId(w)
        w1 == ParamsRead(w)
    IN  IF ~p.valid THEN [w |-> w1, s |-> 0]
        ELSE IF ~env.alloc_screen THEN [w |-> ParamsRead(w1), s |-> 0]
        ELSE IF ~env.alloc_data
        THEN [w |-> FreeScreen(ScreenAlloc(ParamsRead(w1), id, "network_info"), id), s |-> 0]
        ELSE
        LET w2 == CallocData(ScreenAlloc(ParamsRead(w1), id, "network_info"), id)
            w3 == ParamsRead(w2)
            w4 == [w3 EXCEPT !.scr[id].state = "view"]
            w5 == ParamsFree(w4)
        IN  [w |-> DrawScreen(w5, id), s |-> id]

NetworkInfoScreenCreate(w, p, env) ==
    IF p.null THEN [w |-> w, s |-> 0]
    ELSE
    LET id == NextId(w)
        w1 == ParamsRead(w)                       \* info_params->network
    IN  IF ~p.valid THEN [w |-> ParamsFree(w1), s |-> 0]
        ELSE IF ~env.alloc_screen THEN [w |-> ParamsFree(ParamsRead(w1)), s |-> 0]
        ELSE IF ~env.alloc_data
        THEN [w |-> ParamsFree(FreeScreen(ScreenAlloc(ParamsRead(w1), id, "network_info"), id)),
              s |-> 0]
        ELSE
        LET w2 == CallocData(ScreenAlloc(ParamsRead(w1), id, "network_info"), id)
            w3 == ParamsRead(w2)                  \* data->network = *info_params->network
            w4 == [w3 EXCEPT !.scr[id].state = "view"]
            w5 == ParamsFree(w4)
        IN  [w |-> DrawScreen(w5, id), s |-> id]

----------------------------------------------------------------------------
(* arp_hosts_screen (header only under src/): a leaf screen that ESC leaves *)

ArpHostsOnDestroy(w, id) == FreeCtx(w, id)

ArpHostsScreenCreate(w, p, env) ==
    LET id == NextId(w)
    IN  IF ~env.alloc_screen THEN [w |-> w, s |-> 0]
        ELSE IF ~env.alloc_data
        THEN [w |-> FreeScreen(ScreenAlloc(w, id, "arp_hosts"), id), s |-> 0]
        ELSE [w |-> DrawScreen(CallocData(ScreenAlloc(w, id, "arp_hosts"), id), id), s |-> id]

----------------------------------------------------------------------------
(* home screen (not under src/): the root menu that pushes the other screens *)

HomeOnResume(w, id) == DrawScreen(Emit(w, "on_resume", id, ""), id)


----------------------------------------------------------------------------
(* uart_pins_screen.c: selection and the saved mark; the stored pins live  *)
(* in the settings component                                               *)

OPTION_COUNT == 2

UartPinsOnDestroy(w, id) == FreeCtx(w, id)

UartPinsOnResume(w, id) == DrawScreen(Emit(w, "on_resume", id, ""), id)

UartPinsScreenCreate(w, p, env) ==
    LET id == NextId(w)
    IN  IF ~env.alloc_screen THEN [w |-> w, s |-> 0]
        ELSE IF ~env.alloc_data
        THEN [w |-> FreeScreen(ScreenAlloc(w, id, "uart_pins"), id), s |-> 0]
        ELSE [w |-> DrawScreen(CallocData(ScreenAlloc(w, id, "uart_pins"), id), id), s |-> id]

----------------------------------------------------------------------------
(* wardrive_screen.c (src/unnamed/part_000, the promisc variant; the       *)
(* lifecycle code of src/main/screens/wardrive_screen.c is the same text)  *)

\* refresh_timer_callback: runs in the esp_timer task
WardriveRefreshTimerCallback(w, id) ==
    IF ~w.scr[id].ctx THEN Emit(w, "uaf", id, "timer")
    ELSE IF w.scr[id].needs_redraw
    THEN DrawScreen(SetNeedsRedraw(w, id, FALSE), id)
    ELSE w

\* the MAC-shaped prefix test of the CSV recognizer
HasMacPrefix(line) ==
    /\ Len(line) > 18
    /\ line[3] = ":" /\ line[6] = ":" /\ line[9] = ":" /\ line[12] = ":"
    /\ line[15] = ":" /\ line[18] = ","

\* capacities of the parsed-field buffers of wardrive_data_t
LAST_SSID_SIZE == 64
LAT_SIZE == 16
LON_SIZE == 16

\* sscanf(at, "Wardrive promisc: %d unique networks", &n) == 1, from the end
\* of the marker
ScansInt(line, from) == ScanD(line, from).ok

\* the count of conversions and the values once both %d have been tried
ScanSecond(e, t) ==
    [n |-> IF t.ok THEN 2 ELSE 1, elapsed |-> e.val, timeout |-> t.val]

\* after the first %d (result e): the '/' and the second %d
ScanSlash(line, e) ==
    IF ~e.ok THEN [n |-> 0, elapsed |-> 0, timeout |-> 0]
    ELSE IF e.next <= Len(line) /\ line[e.next] = "/"
    THEN ScanSecond(e, ScanD(line, e.next + 1))
    ELSE [n |-> 1, elapsed |-> e.val, timeout |-> 0]

\* sscanf(paren, "(%d/%d seconds)", &elapsed, &timeout): the conversions made
\* and the two values
ScanCountdown(line, paren) == ScanSlash(line, ScanD(line, paren + 1))

\* the end of the lon value: the first character at or after i that the loop
\* of parse_lat_lon does not step over
RECURSIVE LonEnd(_, _)
LonEnd(str, i) ==
    IF i > Len(str) \/ str[i] \in {" ", "\n", "\r"} THEN i
    ELSE IF str[i] \in Digits \/ str[i] = "-" THEN LonEnd(str, i + 1)
    ELSE IF str[i] = "." /\ i + 1 <= Len(str) /\ str[i + 1] \in Digits
    THEN LonEnd(str, i + 1)
    ELSE i

\* a parse whose lon value runs to the next space
ParseLatLon_lon_to_space(str, d) ==
    LET lat_ptr == StrStr(str, S_Lat)
        lat_start == lat_ptr + Len(S_Lat)
        lat_end == StrChr(str, lat_start, " ")
        lat_len == lat_end - lat_start
        d1 == IF lat_len < LAT_SIZE
              THEN [d EXCEPT !.lat = SubSeq(str, lat_start, lat_end - 1)] ELSE d
        lon_ptr == StrStrFrom(str, lat_end, S_Lon)
        lon_start == lon_ptr + Len(S_Lon)
        sp == StrChr(str, lon_start, " ")
        lon_end == IF sp = 0 THEN Len(str) + 1 ELSE sp
        lon_len == lon_end - lon_start
    IN  IF lat_ptr = 0 THEN d
        ELSE IF lat_end = 0 THEN d
        ELSE IF lon_ptr = 0 THEN d1
        ELSE IF lon_len > 0 /\ lon_len < LON_SIZE
        THEN [d1 EXCEPT !.lon = SubSeq(str, lon_start, lon_end - 1)]
        ELSE d1

\* parse_lat_lon(str, data): the context d after the call
ParseLatLon(str, d) ==
    LET lat_ptr == StrStr(str, S_Lat)
        lat_start == lat_ptr + Len(S_Lat)
        lat_end == StrChr(str, lat_start, " ")
        lat_len == lat_end - lat_start
        d1 == IF lat_len < LAT_SIZE
              THEN [d EXCEPT !.lat = SubSeq(str, lat_start, lat_end - 1)] ELSE d
        lon_ptr == StrStrFrom(str, lat_end, S_Lon)
        lon_start == lon_ptr + Len(S_Lon)
        lon_end == LonEnd(str, lon_start)
        lon_len == lon_end - lon_start
    IN  IF lat_ptr = 0 THEN d
        ELSE IF lat_end = 0 THEN d
        ELSE IF lon_ptr = 0 THEN d1
        ELSE IF lon_len > 0 /\ lon_len < LON_SIZE
        THEN [d1 EXCEPT !.lon = SubSeq(str, lon_start, lon_end - 1)]
        ELSE d1

\* position of the k-th comma of the line
Commas(line) == {i \in 1..Len(line) : line[i] = ","}
NthComma(line, k) ==
    LET cs == Commas(line)
    IN  CHOOSE i \in cs : Cardinality({j \in cs : j <= i}) = k

\* a name column that runs to the end of a row cut inside it
CsvSsid_takes_open_name(line, d) ==
    LET ssid_start == 19
        comma == StrChr(line, ssid_start, ",")
        ssid_end == IF comma = 0 THEN Len(line) + 1 ELSE comma
    IN  IF ssid_end > ssid_start /\ ssid_end - ssid_start < LAST_SSID_SIZE
        THEN [d EXCEPT !.last_ssid = SubSeq(line, ssid_start, ssid_end - 1)]
        ELSE d

\* the name column of a CSV row: last_ssid after the row
CsvSsid(line, d) ==
    LET ssid_start == 19
        ssid_end == StrChr(line, ssid_start, ",")
    IN  IF ssid_end # 0 /\ ssid_end > ssid_start /\ ssid_end - ssid_start < LAST_SSID_SIZE
        THEN [d EXCEPT !.last_ssid = SubSeq(line, ssid_start, ssid_end - 1)]
        ELSE d

\* columns copied whatever their length
CsvLatLon_unchecked(line, d) ==
    IF Cardinality(Commas(line)) < 8 THEN d
    ELSE
    LET lat_s == NthComma(line, 6) + 1
        lat_e == NthComma(line, 7)
        lon_s == lat_e + 1
        lon_e == NthComma(line, 8)
    IN  [d EXCEPT !.lat = SubSeq(line, lat_s, lat_e - 1),
                  !.lon = SubSeq(line, lon_s, lon_e - 1)]

\* columns 6 and 7 of a CSV row: lat and lon after the row
CsvLatLon(line, d) ==
    IF Cardinality(Commas(line)) < 8 THEN d
    ELSE
    LET lat_s == NthComma(line, 6) + 1
        lat_e == NthComma(line, 7)
        lon_s == lat_e + 1
        lon_e == NthComma(line, 8)
        ll == lat_e - lat_s
        lo == lon_e - lon_s
        d1 == IF ll > 0 /\ ll < LAT_SIZE
              THEN [d EXCEPT !.lat = SubSeq(line, lat_s, lat_e - 1)] ELSE d
    IN  IF lo > 0 /\ lo < LON_SIZE
        THEN [d1 EXCEPT !.lon = SubSeq(line, lon_s, lon_e - 1)] ELSE d1

\* a consumer whose countdown line puts the screen back into the GPS wait
WardriveParseLine_wait_resets(d, line) ==
    IF HasMacPrefix(line)
    THEN [d |-> [CsvLatLon(line, CsvSsid(line, d)) EXCEPT !.unique_networks = @ + 1],
          redraw |-> TRUE]
    ELSE IF Contains(line, S_still_waiting)
    THEN LET paren == StrChr(line, StrStr(line, S_still_waiting), "(")
             sc == IF paren = 0 THEN [n |-> 0, elapsed |-> 0, timeout |-> 0]
                   ELSE ScanCountdown(line, paren)
         IN  [d |-> IF sc.n = 2
                    THEN [d EXCEPT !.gps_wait_elapsed = sc.elapsed,
                                   !.gps_wait_timeout = sc.timeout,
                                   !.state = "waiting_gps"]
                    ELSE d,
              redraw |-> TRUE]
    ELSE IF Contains(line, S_fix_obtained)
    THEN [d |-> ParseLatLon(line, [d EXCEPT !.state = "running"]), redraw |-> TRUE]
    ELSE IF Contains(line, S_fix_lost)
    THEN [d |-> [d EXCEPT !.state = "gps_lost"], redraw |-> TRUE]
    ELSE IF Contains(line, S_fix_recovered)
    THEN [d |-> ParseLatLon(line, [d EXCEPT !.state = "running"]), redraw |-> TRUE]
    ELSE IF Contains(line, S_promisc)
    THEN LET sc == ScanD(line, StrStr(line, S_promisc) + Len(S_promisc))
         IN  IF sc.ok THEN [d |-> [d EXCEPT !.unique_networks = sc.val], redraw |-> TRUE]
             ELSE [d |-> d, redraw |-> FALSE]
    ELSE [d |-> d, redraw |-> FALSE]

\* uart_line_callback on the context d: the context after the call and whether
\* the call set needs_redraw
WardriveParseLine(d, line) ==
    IF HasMacPrefix(line)
    THEN [d |-> [CsvLatLon(line, CsvSsid(line, d)) EXCEPT !.unique_networks = @ + 1],
          redraw |-> TRUE]
    ELSE IF Contains(line, S_still_waiting)
    THEN LET paren == StrChr(line, StrStr(line, S_still_waiting), "(")
             sc == IF paren = 0 THEN [n |-> 0, elapsed |-> 0, timeout |-> 0]
                   ELSE ScanCountdown(line, paren)
         IN  [d |-> IF sc.n = 2
                    THEN [d EXCEPT !.gps_wait_elapsed = sc.elapsed,
                                   !.gps_wait_timeout = sc.timeout]
                    ELSE d,
              redraw |-> TRUE]
    ELSE IF Contains(line, S_fix_obtained)
    THEN [d |-> ParseLatLon(line, [d EXCEPT !.state = "running"]), redraw |-> TRUE]
    ELSE IF Contains(line, S_fix_lost)
    THEN [d |-> [d EXCEPT !.state = "gps_lost"], redraw |-> TRUE]
    ELSE IF Contains(line, S_fix_recovered)
    THEN [d |-> ParseLatLon(line, [d EXCEPT !.state = "running"]), redraw |-> TRUE]
    ELSE IF Contains(line, S_promisc)
    THEN LET sc == ScanD(line, StrStr(line, S_promisc) + Len(S_promisc))
         IN  IF sc.ok THEN [d |-> [d EXCEPT !.unique_networks = sc.val], redraw |-> TRUE]
             ELSE [d |-> d, redraw |-> FALSE]
    ELSE [d |-> d, redraw |-> FALSE]

\* a consumer that asks for a redraw on every line
WardriveUartLineCallback_always_redraws(w, id, line) ==
    IF ~w.scr[id].ctx THEN Emit(w, "uaf", id, "line")
    ELSE LET r == WardriveParseLine(w.scr[id], line)
             w1 == [w EXCEPT !.scr[id] = r.d]
         IN  SetNeedsRedraw(w1, id, TRUE)

\* uart_line_callback(line, user_data) of the promisc wardrive screen
WardriveUartLineCallback(w, id, line) ==
    IF ~w.scr[id].ctx THEN Emit(w, "uaf", id, "line")
    ELSE LET r == WardriveParseLine(w.scr[id], line)
             w1 == [w EXCEPT !.scr[id] = r.d]
         IN  IF r.redraw THEN SetNeedsRedraw(w1, id, TRUE) ELSE w1

\* on_destroy that forgets uart_clear_line_callback
WardriveOnDestroy_keeps_registration(w, id) ==
    LET w1 == IF w.scr[id].refresh_timer = "running"
              THEN TimerStopDelete(w, id) ELSE w
    IN  FreeCtx(w1, id)

\* data is the non-NULL user_data of a live screen
WardriveOnDestroy(w, id) ==
    LET w1 == IF w.scr[id].refresh_timer = "running"
              THEN TimerStopDelete(w, id) ELSE w
        w2 == UartClearLineCallback(w1)
    IN  FreeCtx(w2, id)

WardriveScreenCreate(w, p, env) ==
    LET id == NextId(w) IN
    IF ~env.alloc_screen THEN [w |-> w, s |-> 0]
    ELSE IF ~env.alloc_data
    THEN [w |-> FreeScreen(ScreenAlloc(w, id, "wardrive"), id), s |-> 0]
    ELSE
    LET
        w1 == CallocData(ScreenAlloc(w, id, "wardrive"), id)
        w2 == [w1 EXCEPT !.scr[id].state = "waiting_gps"]
        w3 == TimerCreateStart(w2, id, env.timer_ok)
        w4 == UartRegisterLineCallback(w3, "wardrive", id)
        w5 == DrawScreen(w4, id)
        w6 == UartSendCommand(w5, "start_wardrive_promisc", env.ret1)
    IN  [w |-> w6, s |-> id]

----------------------------------------------------------------------------
(* src/main/screens/wardrive_screen.c: the wardrive screen that follows the *)
(* "Logged N networks" lines (kind "wardrive_log")                         *)

MAX_LOG_LINE == 128

WardriveLogRefreshTimerCallback(w, id) ==
    IF ~w.scr[id].ctx THEN Emit(w, "uaf", id, "timer")
    ELSE IF w.scr[id].needs_redraw
    THEN DrawScreen(SetNeedsRedraw(w, id, FALSE), id)
    ELSE w

\* the "GPS: Lat=... Lon=..." branch on the context d; found is the marker
\* a coordinates branch that takes an unterminated lat to the end of the line
WardriveLogGps_takes_open_lat(line, found, d) ==
    LET lat_start == found + Len(S_GPS_Lat)
        sp == StrChr(line, lat_start, " ")
        lat_end == IF sp = 0 THEN Len(line) + 1 ELSE sp
        lat_len == lat_end - lat_start
        d1 == IF lat_len < LAT_SIZE
              THEN [d EXCEPT !.lat = SubSeq(line, lat_start, lat_end - 1)] ELSE d
        lon_ptr == StrStrFrom(line, lat_end, S_Lon)
        lon_start == lon_ptr + Len(S_Lon)
        lon_end == StrChr(line, lon_start, " ")
        lon_len == lon_end - lon_start
    IN  IF lon_ptr = 0 \/ lon_end = 0 THEN [d |-> d1, redraw |-> TRUE]
        ELSE IF lon_len < LON_SIZE
        THEN [d |-> [d1 EXCEPT !.lon = SubSeq(line, lon_start, lon_end - 1)], redraw |-> TRUE]
        ELSE [d |-> d1, redraw |-> TRUE]

WardriveLogGps(line, found, d) ==
    LET lat_start == found + Len(S_GPS_Lat)
        lat_end == StrChr(line, lat_start, " ")
        lat_len == lat_end - lat_start
        d1 == IF lat_len < LAT_SIZE
              THEN [d EXCEPT !.lat = SubSeq(line, lat_start, lat_end - 1)] ELSE d
        lon_ptr == StrStrFrom(line, lat_end, S_Lon)
        lon_start == lon_ptr + Len(S_Lon)
        lon_end == StrChr(line, lon_start, " ")
        lon_len == lon_end - lon_start
    IN  IF lat_end = 0 THEN [d |-> d, redraw |-> FALSE]
        ELSE IF lon_ptr = 0 \/ lon_end = 0 THEN [d |-> d1, redraw |-> TRUE]
        ELSE IF lon_len < LON_SIZE
        THEN [d |-> [d1 EXCEPT !.lon = SubSeq(line, lon_start, lon_end - 1)], redraw |-> TRUE]
        ELSE [d |-> d1, redraw |-> TRUE]

\* the tail of a stored log line is trimmed of newline, return and space, but
\* never down to nothing
RECURSIVE TrimTail(_)
TrimTail(t) ==
    IF Len(t) > 1 /\ t[Len(t)] \in {"\n", "\r", " "}
    THEN TrimTail(SubSeq(t, 1, Len(t) - 1)) ELSE t

\* uart_line_callback on the context d: the context after the call and whether
\* the call set needs_redraw
WardriveLogParseLine(d, line) ==
    LET ssid_end == StrChr(line, 19, ",")
        csv == /\ HasMacPrefix(line)
               /\ ssid_end # 0 /\ ssid_end > 19 /\ ssid_end - 19 < LAST_SSID_SIZE
        d0 == IF csv THEN [d EXCEPT !.last_ssid = SubSeq(line, 19, ssid_end - 1)] ELSE d
        gps == StrStr(line, S_GPS_Lat)
        found == StrStr(line, S_Logged)
    IN  IF Contains(line, S_fix_obtained)
        THEN [d |-> [d0 EXCEPT !.state = "running"], redraw |-> TRUE]
        ELSE IF gps # 0
        THEN LET r == WardriveLogGps(line, gps, d0)
             IN  [d |-> r.d, redraw |-> csv \/ r.redraw]
        ELSE IF found # 0 /\ StrStrFrom(line, found, S_networks_to) # 0
        THEN LET n == Len(line) - found + 1
                 copied == SubSeq(line, found,
                                  found + (IF n < MAX_LOG_LINE - 1 THEN n ELSE MAX_LOG_LINE - 1) - 1)
             IN  [d |-> [d0 EXCEPT !.last_log_line = TrimTail(copied)], redraw |-> TRUE]
        ELSE [d |-> d0, redraw |-> csv]

WardriveLogUartLineCallback(w, id, line) ==
    IF ~w.scr[id].ctx THEN Emit(w, "uaf", id, "line")
    ELSE LET r == WardriveLogParseLine(w.scr[id], line)
             w1 == [w EXCEPT !.scr[id] = r.d]
         IN  IF r.redraw THEN SetNeedsRedraw(w1, id, TRUE) ELSE w1

\* data is the non-NULL user_data of a live screen
WardriveLogOnDestroy(w, id) ==
    LET w1 == IF w.scr[id].refresh_timer = "running"
              THEN TimerStopDelete(w, id) ELSE w
        w2 == UartClearLineCallback(w1)
    IN  FreeCtx(w2, id)

WardriveLogScreenCreate(w, p, env) ==
    LET id == NextId(w) IN
    IF ~env.alloc_screen THEN [w |-> w, s |-> 0]
    ELSE IF ~env.alloc_data
    THEN [w |-> FreeScreen(ScreenAlloc(w, id, "wardrive_log"), id), s |-> 0]
    ELSE
    LET
        w1 == CallocData(ScreenAlloc(w, id, "wardrive_log"), id)
        w2 == [w1 EXCEPT !.scr[id].state = "waiting_gps"]
        w3 == TimerCreateStart(w2, id, env.timer_ok)
        w4 == UartRegisterLineCallback(w3, "wardrive_log", id)
        w5 == DrawScreen(w4, id)
        w6 == UartSendCommand(w5, "gps_set m5", env.ret1)
        w7 == UartSendCommand(w6, "start_wardrive", env.ret2)
    IN  [w |-> w7, s |-> id]

----------------------------------------------------------------------------
(* handshaker_screen.c (src/main/screens/gps_module_screen.h) *)

MAX_CAPTURED == 8
\* capacity of one captured SSID (wifi header, not under src/)
MAX_SSID_LEN == 33

HandshakerRefreshTimerCallback(w, id) ==
    IF ~w.scr[id].ctx THEN Emit(w, "uaf", id, "timer")
    ELSE IF w.scr[id].needs_redraw
    THEN DrawScreen(SetNeedsRedraw(w, id, FALSE), id)
    ELSE w

\* a line callback whose capacity test lets a ninth SSID in
HandshakerUartLineCallback_one_more(w, id, line) ==
    IF ~w.scr[id].ctx THEN Emit(w, "uaf", id, "line")
    ELSE
    LET found == StrStr(line, S_handshake)
        cap == w.scr[id].captured
    IN  IF found = 0 \/ Len(cap) > MAX_CAPTURED THEN w
        ELSE
        LET ssid_start == found + Len(S_handshake)
            sp == StrChr(line, ssid_start, " ")
            ssid_end == IF sp = 0 THEN Len(line) + 1 ELSE sp
            raw_len == ssid_end - ssid_start
            ssid_len == IF raw_len >= MAX_SSID_LEN THEN MAX_SSID_LEN - 1 ELSE raw_len
            ssid == SubSeq(line, ssid_start, ssid_start + ssid_len - 1)
            already == \E i \in 1..Len(cap) : cap[i] = ssid
        IN  IF already THEN w
            ELSE SetNeedsRedraw([w EXCEPT !.scr[id].captured = Append(@, ssid)], id, TRUE)

HandshakerUartLineCallback(w, id, line) ==
    IF ~w.scr[id].ctx THEN Emit(w, "uaf", id, "line")
    ELSE
    LET found == StrStr(line, S_handshake)
        cap == w.scr[id].captured
    IN  IF found = 0 \/ Len(cap) >= MAX_CAPTURED THEN w
        ELSE
        LET ssid_start == found + Len(S_handshake)
            sp == StrChr(line, ssid_start, " ")
            ssid_end == IF sp = 0 THEN Len(line) + 1 ELSE sp
            raw_len == ssid_end - ssid_start
            ssid_len == IF raw_len >= MAX_SSID_LEN THEN MAX_SSID_LEN - 1 ELSE raw_len
            ssid == SubSeq(line, ssid_start, ssid_start + ssid_len - 1)
            already == \E i \in 1..Len(cap) : cap[i] = ssid
        IN  IF already THEN w
            ELSE SetNeedsRedraw([w EXCEPT !.scr[id].captured = Append(@, ssid)], id, TRUE)

\* on_destroy that frees the context first and tears down afterwards
HandshakerOnDestroy_frees_first(w, id) ==
    LET w1 == FreeCtx(w, id)
        w2 == IF w1.scr[id].refresh_timer = "running"
              THEN TimerStopDelete(w1, id) ELSE w1
    IN  UartClearLineCallback(w2)

\* data is the non-NULL user_data of a live screen
HandshakerOnDestroy(w, id) ==
    LET w1 == IF w.scr[id].refresh_timer = "running"
              THEN TimerStopDelete(w, id) ELSE w
        w2 == UartClearLineCallback(w1)
    IN  FreeCtx(w2, id)

\* a factory that frees hs_params before it copies the count out of it
HandshakerScreenCreate_reads_freed(w, p, env) ==
    IF p.null THEN [w |-> w, s |-> 0]
    ELSE
    LET id == NextId(w)
        w0 == ParamsRead(w)
    IN  IF ~env.alloc_screen THEN [w |-> ParamsFree(ParamsRead(w0)), s |-> 0]
        ELSE IF ~env.alloc_data
        THEN [w |-> ParamsFree(ParamsRead(FreeScreen(ScreenAlloc(w0, id, "handshaker"), id))),
              s |-> 0]
        ELSE
        LET w1 == CallocData(ScreenAlloc(w0, id, "handshaker"), id)
            w2 == ParamsRead(ParamsFree(w1))
            w3 == TimerCreateStart(w2, id, env.timer_ok)
            w4 == UartRegisterLineCallback(w3, "handshaker", id)
        IN  [w |-> DrawScreen(w4, id), s |-> id]

HandshakerScreenCreate(w, p, env) ==
    IF p.null THEN [w |-> w, s |-> 0]
    ELSE
    LET id == NextId(w)
        w0 == ParamsRead(w)                       \* hs_params->count in the log line
    IN  IF ~env.alloc_screen THEN [w |-> ParamsFree(ParamsRead(w0)), s |-> 0]
        ELSE IF ~env.alloc_data
        THEN [w |-> ParamsFree(ParamsRead(FreeScreen(ScreenAlloc(w0, id, "handshaker"), id))),
              s |-> 0]
        ELSE
        LET w1 == CallocData(ScreenAlloc(w0, id, "handshaker"), id)
            w2 == ParamsFree(ParamsRead(w1))      \* networks, count, then free
            w3 == TimerCreateStart(w2, id, env.timer_ok)
            w4 == UartRegisterLineCallback(w3, "handshaker", id)
        IN  [w |-> DrawScreen(w4, id), s |-> id]


----------------------------------------------------------------------------
(* channel_time_settings_screen.c (src/unnamed/part_000) *)

MIN_TIME_MS == 100
MAX_TIME_MS == 1500
STEP_LARGE == 10
FIELD_MIN == 0
FIELD_MAX == 1
FIELD_COUNT == 2

\* strtol(start, &end, 10) from the first digit at or after `from`
RECURSIVE StrToL(_, _, _)
StrToL(line, i, acc) ==
    IF i > Len(line) \/ line[i] \notin Digits THEN acc
    ELSE StrToL(line, i + 1, acc * 10 + DigitVal(line[i]))

\* parse_integer_response: the first digit run of the line, -1 when none
ParseIntegerResponse(line) ==
    LET ds == {i \in 1..Len(line) : line[i] \in Digits}
    IN  IF ds = {} THEN -1
        ELSE StrToL(line, CHOOSE i \in ds : \A j \in ds : i <= j, 0)

\* a validation that does not compare min with max
ValidateValues_no_order(d) ==
    IF d.edited_min < MIN_TIME_MS \/ d.edited_min > MAX_TIME_MS
    THEN "Min must be 100-1500 ms"
    ELSE IF d.edited_max < MIN_TIME_MS \/ d.edited_max > MAX_TIME_MS
    THEN "Max must be 100-1500 ms"
    ELSE ""

\* validate_values: "" when valid, else the status message it sets
ValidateValues(d) ==
    IF d.edited_min < MIN_TIME_MS \/ d.edited_min > MAX_TIME_MS
    THEN "Min must be 100-1500 ms"
    ELSE IF d.edited_max < MIN_TIME_MS \/ d.edited_max > MAX_TIME_MS
    THEN "Max must be 100-1500 ms"
    ELSE IF d.edited_min >= d.edited_max THEN "Min must be < Max"
    ELSE ""

\* on_uart_response: user_data is the screen_t, the context is reached through it
\* a consumer that takes the first answer as min and the second as max
ChannelTimeOnUartResponse_by_position(w, id, line) ==
    IF ~w.scr[id].obj \/ ~w.scr[id].ctx THEN Emit(w, "uaf", id, "line")
    ELSE IF w.scr[id].loading_count <= 0 THEN w
    ELSE
    LET d == w.scr[id]
        value == ParseIntegerResponse(line)
        w1 == IF value >= 0 /\ d.loading_count = 2
              THEN [w EXCEPT !.scr[id].min_value = value,
                             !.scr[id].edited_min = value,
                             !.scr[id].loading_count = @ - 1]
              ELSE IF value >= 0 /\ d.loading_count = 1
              THEN [w EXCEPT !.scr[id].max_value = value,
                             !.scr[id].edited_max = value,
                             !.scr[id].loading_count = @ - 1]
              ELSE w
    IN  IF w1.scr[id].loading_count = 0
        THEN SetNeedsRedraw(
                 UartClearLineCallback(
                     [w1 EXCEPT !.scr[id].loading = FALSE, !.scr[id].status_msg = ""]),
                 id, TRUE)
        ELSE w1

ChannelTimeOnUartResponse(w, id, line) ==
    IF ~w.scr[id].obj \/ ~w.scr[id].ctx THEN Emit(w, "uaf", id, "line")
    ELSE IF w.scr[id].loading_count <= 0 THEN w
    ELSE
    LET d == w.scr[id]
        value == ParseIntegerResponse(line)
        w1 == IF Contains(line, S_min)
              THEN IF value >= 0
                   THEN [w EXCEPT !.scr[id].min_value = value,
                                  !.scr[id].edited_min = value,
                                  !.scr[id].loading_count = @ - 1]
                   ELSE w
              ELSE IF Contains(line, S_max)
              THEN IF value >= 0
                   THEN [w EXCEPT !.scr[id].max_value = value,
                                  !.scr[id].edited_max = value,
                                  !.scr[id].loading_count = @ - 1]
                   ELSE w
              ELSE IF value >= 0 /\ d.loading_count > 0
              THEN IF d.loading_count = 2
                   THEN [w EXCEPT !.scr[id].min_value = value,
                                  !.scr[id].edited_min = value,
                                  !.scr[id].loading_count = @ - 1]
                   ELSE IF d.loading_count = 1
                   THEN [w EXCEPT !.scr[id].max_value = value,
                                  !.scr[id].edited_max = value,
                                  !.scr[id].loading_count = @ - 1]
                   ELSE w
              ELSE w
    IN  IF w1.scr[id].loading_count = 0
        THEN SetNeedsRedraw(
                 UartClearLineCallback(
                     [w1 EXCEPT !.scr[id].loading = FALSE, !.scr[id].status_msg = ""]),
                 id, TRUE)
        ELSE w1

\* on_tick clears the flag and draws nothing itself
ChannelTimeOnTick(w, id) ==
    IF w.scr[id].needs_redraw THEN SetNeedsRedraw(w, id, FALSE) ELSE w

ChannelTimeOnDestroy(w, id) == FreeCtx(UartClearLineCallback(w), id)

ChannelTimeOnResume(w, id, env) ==
    LET w0 == Emit(w, "on_resume", id, "")
        w1 == [w0 EXCEPT !.scr[id].loading = TRUE,
                         !.scr[id].loading_count = 2,
                         !.scr[id].saved = FALSE]
        w2 == SetNeedsRedraw(w1, id, FALSE)
        w3 == [w2 EXCEPT !.scr[id].status_msg = "", !.scr[id].selected = FIELD_MIN]
        w4 == UartRegisterLineCallback(w3, "channel_time", id)
        w5 == UartSendCommand(w4, "channel_time read min", env.ret1)
        w6 == UartSendCommand(w5, "channel_time read max", env.ret2)
    IN  DrawScreen(w6, id)

\* a factory that initialises the new screen by calling its own on_resume
ChannelTimeSettingsScreenCreate_resumes(w, p, env) ==
    LET id == NextId(w) IN
    IF ~env.alloc_screen THEN [w |-> w, s |-> 0]
    ELSE IF ~env.alloc_data
    THEN [w |-> FreeScreen(ScreenAlloc(w, id, "channel_time"), id), s |-> 0]
    ELSE
    LET
        w1 == CallocData(ScreenAlloc(w, id, "channel_time"), id)
        w2 == [w1 EXCEPT !.scr[id].min_value = 100, !.scr[id].max_value = 300,
                         !.scr[id].edited_min = 100, !.scr[id].edited_max = 300]
    IN  [w |-> ChannelTimeOnResume(w2, id, env), s |-> id]

ChannelTimeSettingsScreenCreate(w, p, env) ==
    LET id == NextId(w) IN
    IF ~env.alloc_screen THEN [w |-> w, s |-> 0]
    ELSE IF ~env.alloc_data
    THEN [w |-> FreeScreen(ScreenAlloc(w, id, "channel_time"), id), s |-> 0]
    ELSE
    LET
        w1 == CallocData(ScreenAlloc(w, id, "channel_time"), id)
        w2 == [w1 EXCEPT !.scr[id].min_value = 100, !.scr[id].max_value = 300,
                         !.scr[id].edited_min = 100, !.scr[id].edited_max = 300,
                         !.scr[id].selected = FIELD_MIN,
                         !.scr[id].loading = TRUE, !.scr[id].loading_count = 2,
                         !.scr[id].saved = FALSE]
        w3 == SetNeedsRedraw(w2, id, FALSE)
        w4 == [w3 EXCEPT !.scr[id].status_msg = ""]
        w5 == UartRegisterLineCallback(w4, "channel_time", id)
        w6 == UartSendCommand(w5, "channel_time read min", env.ret1)
        w7 == UartSendCommand(w6, "channel_time read max", env.ret2)
    IN  [w |-> DrawScreen(w7, id), s |-> id]

----------------------------------------------------------------------------
(* data_detail_screen.c (src/main/screens/gps_module_screen.h); the content *)
(* handed over is empty here, so wrap_content leaves line_count = 0         *)

\* a line callback without the STATE_CONNECTING guard
DataDetailUartLineCallback_any_state(w, id, line) ==
    IF ~w.scr[id].ctx THEN Emit(w, "uaf", id, "line")
    ELSE IF Contains(line, S_SUCCESS) /\ Contains(line, S_Connected)
    THEN LET w1 == [w EXCEPT !.scr[id].success = TRUE,
                             !.scr[id].status_msg = "Connected!",
                             !.scr[id].state = "result"]
         IN  SetNeedsRedraw(UartSetWifiConnected(w1, TRUE), id, TRUE)
    ELSE IF Contains(line, S_FAILED)
    THEN LET w1 == [w EXCEPT !.scr[id].success = FALSE,
                             !.scr[id].status_msg = "Connection failed",
                             !.scr[id].state = "result"]
         IN  SetNeedsRedraw(UartSetWifiConnected(w1, FALSE), id, TRUE)
    ELSE w

DataDetailUartLineCallback(w, id, line) ==
    IF ~w.scr[id].ctx THEN Emit(w, "uaf", id, "line")
    ELSE IF w.scr[id].state # "connecting" THEN w
    ELSE IF Contains(line, S_SUCCESS) /\ Contains(line, S_Connected)
    THEN LET w1 == [w EXCEPT !.scr[id].success = TRUE,
                             !.scr[id].status_msg = "Connected!",
                             !.scr[id].state = "result"]
         IN  SetNeedsRedraw(UartSetWifiConnected(w1, TRUE), id, TRUE)
    ELSE IF Contains(line, S_FAILED)
    THEN LET w1 == [w EXCEPT !.scr[id].success = FALSE,
                             !.scr[id].status_msg = "Connection failed",
                             !.scr[id].state = "result"]
         IN  SetNeedsRedraw(UartSetWifiConnected(w1, FALSE), id, TRUE)
    ELSE w

\* on_tick that draws and leaves the flag set
DataDetailOnTick_keeps_flag(w, id) ==
    IF w.scr[id].needs_redraw THEN DrawScreen(w, id) ELSE w

DataDetailOnTick(w, id) ==
    IF w.scr[id].needs_redraw
    THEN DrawScreen(SetNeedsRedraw(w, id, FALSE), id)
    ELSE w

DataDetailOnDestroy(w, id) == FreeCtx(UartClearLineCallback(w), id)

DataDetailOnResume(w, id) == DrawScreen(Emit(w, "on_resume", id, ""), id)

DataDetailScreenCreate(w, p, env) ==
    IF p.null THEN [w |-> w, s |-> 0]
    ELSE
    LET id == NextId(w)
        w0 == ParamsRead(w)                       \* detail_params->title in the log line
    IN  IF ~env.alloc_screen THEN [w |-> ParamsFree(w0), s |-> 0]
        ELSE IF ~env.alloc_data
        THEN [w |-> ParamsFree(FreeScreen(ScreenAlloc(w0, id, "data_detail"), id)), s |-> 0]
        ELSE
        LET w1 == CallocData(ScreenAlloc(w0, id, "data_detail"), id)
            w2 == [w1 EXCEPT !.scr[id].state = "view"]
            w3 == ParamsRead(w2)                  \* title, content, connect_ssid
            w4 == [w3 EXCEPT !.scr[id].has_connect = p.valid]
            w5 == ParamsFree(w4)
        IN  [w |-> DrawScreen(w5, id), s |-> id]


----------------------------------------------------------------------------
(* Screen manager (screen_manager.c, not under src/), from its contract *)

OnDestroy(w, id) ==
    LET k == w.scr[id].kind
    IN  CASE k = "text_input" -> TextInputOnDestroy(w, id)
          [] k = "network_info" -> NetworkInfoOnDestroy(w, id)
          [] k = "arp_hosts" -> ArpHostsOnDestroy(w, id)
          [] k = "uart_pins" -> UartPinsOnDestroy(w, id)
          [] k = "wardrive" -> WardriveOnDestroy(w, id)
          [] k = "wardrive_log" -> WardriveLogOnDestroy(w, id)
          [] k = "handshaker" -> HandshakerOnDestroy(w, id)
          [] k = "channel_time" -> ChannelTimeOnDestroy(w, id)
          [] k = "data_detail" -> DataDetailOnDestroy(w, id)
          [] OTHER -> w

OnResume(w, id, env) ==
    LET k == w.scr[id].kind
    IN  CASE k = "home" -> HomeOnResume(w, id)
          [] k = "network_info" -> NetworkInfoOnResume(w, id)
          [] k = "uart_pins" -> UartPinsOnResume(w, id)
          [] k = "channel_time" -> ChannelTimeOnResume(w, id, env)
          [] k = "data_detail" -> DataDetailOnResume(w, id)
          [] OTHER -> w

Factory(w, kind, p, env) ==
    CASE kind = "text_input" -> TextInputScreenCreate(w, p, env)
      [] kind = "network_info" -> NetworkInfoScreenCreate(w, p, env)
      [] kind = "arp_hosts" -> ArpHostsScreenCreate(w, p, env)
      [] kind = "uart_pins" -> UartPinsScreenCreate(w, p, env)
      [] kind = "wardrive" -> WardriveScreenCreate(w, p, env)
      [] kind = "wardrive_log" -> WardriveLogScreenCreate(w, p, env)
      [] kind = "handshaker" -> HandshakerScreenCreate(w, p, env)
      [] kind = "channel_time" -> ChannelTimeSettingsScreenCreate(w, p, env)
      [] kind = "data_detail" -> DataDetailScreenCreate(w, p, env)

\* push(factory, params): the factory's screen becomes the top; a NULL screen
\* leaves the stack alone and push reports failure
ScreenManagerPush(w, kind, p, env) ==
    LET r == Factory(Emit(w, "push", 0, kind), kind, p, env)
    IN  IF r.s = 0 THEN Emit(r.w, "push_fail", 0, kind)
        ELSE Emit([r.w EXCEPT !.stack = Append(@, r.s), !.npush = @ + 1],
                  "push_ok", r.s, kind)

\* a pop without the root guard
ScreenManagerPop_unguarded(w, env) ==
    LET id == Top(w)
        w1 == OnDestroy(Emit(w, "on_destroy", id,
                             IF w.slot.ctx = id THEN "registered" ELSE ""), id)
        w2 == Emit([w1 EXCEPT !.scr[id] =
                        IF ~w1.scr[id].ctx /\ w1.scr[id].refresh_timer # "running"
                        THEN NoScreen ELSE [w1.scr[id] EXCEPT !.obj = FALSE]],
                   "free_screen", id, "")
        w3 == [w2 EXCEPT !.stack = SubSeq(@, 1, Len(@) - 1), !.npop = @ + 1]
    IN  IF w3.stack = <<>> THEN w3
        ELSE IF HasOnResume(w3.scr[Top(w3)].kind)
        THEN OnResume(Emit(w3, "reveal", Top(w3), ""), Top(w3), env)
        ELSE Emit(w3, "reveal", Top(w3), "")

\* pop(): destroys the top and resumes the screen under it; the root stays
ScreenManagerPop(w, env) ==
    IF Len(w.stack) <= 1 THEN Emit(w, "pop_noop", 0, "")
    ELSE
    LET id == Top(w)
        \* the on_destroy call notes whether the screen holds the line consumer
        w1 == OnDestroy(Emit(w, "on_destroy", id,
                             IF w.slot.ctx = id THEN "registered" ELSE ""), id)
        \* free(screen); a block whose context is freed too is free again, unless
        \* a timer that was never deleted still points at it
        w2 == Emit([w1 EXCEPT !.scr[id] =
                        IF ~w1.scr[id].ctx /\ w1.scr[id].refresh_timer # "running"
                        THEN NoScreen ELSE [w1.scr[id] EXCEPT !.obj = FALSE]],
                   "free_screen", id, "")
        w3 == [w2 EXCEPT !.stack = SubSeq(@, 1, Len(@) - 1), !.npop = @ + 1]
        under == Top(w3)
        w4 == Emit(w3, "reveal", under, "")
    IN  IF HasOnResume(w4.scr[under].kind) THEN OnResume(w4, under, env) ELSE w4

----------------------------------------------------------------------------
(* Key handlers *)

\* strncpy(data->password, text, 63): text points into the input buffer of
\* the text-input screen text
CopyPassword(w, text, id) ==
    IF ~w.scr[text].ctx THEN Emit(w, "uaf", text, "text")
    ELSE LET in == w.scr[text].input
         IN  [w EXCEPT !.scr[id].password =
                  SubSeq(in, 1, IF Len(in) < 64 THEN Len(in) ELSE 64)]

\* a submit handler that sends the command before it registers
OnPasswordSubmitted_sends_first(w, text, id, env) ==
    LET w1 == CopyPassword(w, text, id)
        w2 == ScreenManagerPop(w1, env)
        w3 == [w2 EXCEPT !.scr[id].state = "connecting"]
        w4 == DrawScreen(w3, id)
        w5 == UartSendCommand(w4, "wifi_connect", env.ret1)
    IN  UartRegisterLineCallback(w5, "network_info", id)

\* on_password_submitted: the text-input screen's on_submit, user_data = id
OnPasswordSubmitted(w, text, id, env) ==
    LET w1 == CopyPassword(w, text, id)
        w2 == ScreenManagerPop(w1, env)
        w3 == [w2 EXCEPT !.scr[id].state = "connecting"]
        w4 == DrawScreen(w3, id)
        w5 == UartRegisterLineCallback(w4, "network_info", id)
    IN  UartSendCommand(w5, "wifi_connect", env.ret1)

\* an on_key that redraws itself once on_submit has returned
TextInputOnKey_redraws_after_submit(w, id, key, env) ==
    LET d == w.scr[id]
    IN  CASE key = "ENTER" ->
                IF d.cursor_pos > 0 /\ d.on_submit # 0
                THEN DrawScreen(OnPasswordSubmitted(w, id, d.on_submit, env), id)
                ELSE w
          [] key = "ESC" -> ScreenManagerPop(w, env)
          [] key \in {"BACKSPACE", "DEL"} ->
                IF d.cursor_pos > 0
                THEN DrawScreen([w EXCEPT !.scr[id].cursor_pos = @ - 1,
                                          !.scr[id].input = SubSeq(@, 1, d.cursor_pos - 1)],
                                id)
                ELSE w
          [] OTHER ->
                IF KeyToChar(key) # "" /\ d.cursor_pos < MaxInputLen
                THEN DrawScreen([w EXCEPT !.scr[id].cursor_pos = @ + 1,
                                          !.scr[id].input = Append(@, KeyToChar(key))],
                                id)
                ELSE w

TextInputOnKey(w, id, key, env) ==
    LET d == w.scr[id]
    IN  CASE key = "ENTER" ->
                IF d.cursor_pos > 0 /\ d.on_submit # 0
                THEN OnPasswordSubmitted(w, id, d.on_submit, env)    \* text = data->input
                ELSE w
          [] key = "ESC" -> ScreenManagerPop(w, env)
          [] key \in {"BACKSPACE", "DEL"} ->
                IF d.cursor_pos > 0
                THEN DrawScreen([w EXCEPT !.scr[id].cursor_pos = @ - 1,
                                          !.scr[id].input = SubSeq(@, 1, d.cursor_pos - 1)],
                                id)
                ELSE w
          [] OTHER ->
                IF KeyToChar(key) # "" /\ d.cursor_pos < MaxInputLen
                THEN DrawScreen([w EXCEPT !.scr[id].cursor_pos = @ + 1,
                                          !.scr[id].input = Append(@, KeyToChar(key))],
                                id)
                ELSE w

NetworkInfoOnKey(w, id, key, env) ==
    LET d == w.scr[id]
    IN  IF d.state = "result"
        THEN IF key \in {"ENTER", "SPACE"}
             THEN IF d.success
                  THEN ScreenManagerPush(UartClearLineCallback(w), "arp_hosts", NullParams, env)
                  ELSE DrawScreen([w EXCEPT !.scr[id].state = "view"], id)
             ELSE IF key \in {"ESC", "BACKSPACE"}
             THEN ScreenManagerPop(UartClearLineCallback(w), env)
             ELSE w
        ELSE IF d.state = "connecting"
        THEN IF key = "ESC"
             THEN ScreenManagerPop(UartClearLineCallback(w), env)
             ELSE w
        ELSE CASE key \in {"ENTER", "SPACE"} ->
                    [w EXCEPT !.scr[id].needs_push_password = TRUE]
               [] key \in {"ESC", "Q", "BACKSPACE"} -> ScreenManagerPop(w, env)
               [] OTHER -> w

\* an on_tick that pushes without clearing the request
NetworkInfoOnTick_keeps_request(w, id, env) ==
    IF w.scr[id].needs_push_password
    THEN IF env.malloc_ok
         THEN ScreenManagerPush(Emit(w, "params_alloc", 0, ""), "text_input",
                                Params(TRUE, id), env)
         ELSE w
    ELSE IF w.scr[id].needs_redraw
    THEN DrawScreen(SetNeedsRedraw(w, id, FALSE), id)
    ELSE w

\* on_tick of network_info: the deferred push, else the deferred redraw
NetworkInfoOnTick(w, id, env) ==
    IF w.scr[id].needs_push_password
    THEN LET w1 == [w EXCEPT !.scr[id].needs_push_password = FALSE]
         IN  IF env.malloc_ok
             THEN ScreenManagerPush(Emit(w1, "params_alloc", 0, ""), "text_input",
                                    Params(TRUE, id), env)
             ELSE w1
    ELSE IF w.scr[id].needs_redraw
    THEN DrawScreen(SetNeedsRedraw(w, id, FALSE), id)
    ELSE w

DataDetailOnKey(w, id, key, env) ==
    LET d == w.scr[id]
    IN  IF d.state = "result"
        THEN IF key \in {"ENTER", "SPACE"}
             THEN IF d.success
                  THEN ScreenManagerPush(UartClearLineCallback(w), "arp_hosts", NullParams, env)
                  ELSE DrawScreen([w EXCEPT !.scr[id].state = "view"], id)
             ELSE IF key \in {"ESC", "BACKSPACE"}
             THEN ScreenManagerPop(w, env)
             ELSE w
        ELSE IF d.state = "connecting"
        THEN IF key = "ESC"
             THEN ScreenManagerPop(UartClearLineCallback(w), env)
             ELSE w
        ELSE CASE key \in {"ENTER", "SPACE"} ->
                    IF d.has_connect
                    THEN LET w1 == DrawScreen([w EXCEPT !.scr[id].state = "connecting"], id)
                             w2 == UartRegisterLineCallback(w1, "data_detail", id)
                         IN  UartSendCommand(w2, "wifi_connect", env.ret1)
                    ELSE w
               [] key \in {"ESC", "Q", "BACKSPACE"} -> ScreenManagerPop(w, env)
               [] OTHER -> w      \* UP/DOWN scroll nothing: line_count = 0

ArpHostsOnKey(w, id, key, env) ==
    IF key = "ESC" THEN ScreenManagerPop(w, env) ELSE w

UartPinsOnKey(w, id, key, env) ==
    LET d == w.scr[id]
    IN  CASE key = "UP" ->
                IF d.selected > 0
                THEN Emit([w EXCEPT !.scr[id].selected = @ - 1, !.scr[id].saved = FALSE],
                          "draw", id, w.cx)
                ELSE w
          [] key = "DOWN" ->
                IF d.selected < OPTION_COUNT - 1
                THEN Emit([w EXCEPT !.scr[id].selected = @ + 1, !.scr[id].saved = FALSE],
                          "draw", id, w.cx)
                ELSE w
          [] key \in {"ENTER", "SPACE"} ->
                DrawScreen(IF env.ret1 THEN [w EXCEPT !.scr[id].saved = TRUE] ELSE w, id)
          [] key \in {"ESC", "Q", "BACKSPACE"} -> ScreenManagerPop(w, env)
          [] OTHER -> w

WardriveOnKey(w, id, key, env) ==
    IF key \in {"ESC", "Q", "BACKSPACE"}
    THEN ScreenManagerPop(UartSendCommand(w, "stop", env.ret1), env)
    ELSE w

WardriveLogOnKey(w, id, key, env) ==
    IF key \in {"ESC", "Q", "BACKSPACE"}
    THEN ScreenManagerPop(UartSendCommand(w, "stop", env.ret1), env)
    ELSE w

HandshakerOnKey(w, id, key, env) ==
    IF key \in {"ESC", "Q"}
    THEN ScreenManagerPop(UartSendCommand(w, "stop", env.ret1), env)
    ELSE w

\* an on_key without the loading guard: ENTER sends whatever is on the screen
ChannelTimeOnKey_sends_while_loading(w, id, key, env) ==
    IF key \in {"ESC", "Q", "BACKSPACE"}
    THEN ScreenManagerPop(UartClearLineCallback(w), env)
    ELSE IF key \in {"ENTER", "SPACE"}
    THEN DrawScreen(UartSendCommand(UartSendCommand(w, "channel_time set min", env.ret1),
                                    "channel_time set max", env.ret2), id)
    ELSE w

ChannelTimeOnKey(w, id, key, env) ==
    LET d == w.scr[id]
        touched == [w EXCEPT !.scr[id].saved = FALSE, !.scr[id].status_msg = ""]
    IN  IF d.loading
        THEN IF key \in {"ESC", "Q", "BACKSPACE"}
             THEN ScreenManagerPop(UartClearLineCallback(w), env)
             ELSE w
        ELSE CASE key = "UP" ->
                    DrawScreen([touched EXCEPT !.scr[id].selected =
                                    IF d.selected > 0 THEN d.selected - 1 ELSE FIELD_COUNT - 1],
                               id)
               [] key = "DOWN" ->
                    DrawScreen([touched EXCEPT !.scr[id].selected =
                                    IF d.selected < FIELD_COUNT - 1 THEN d.selected + 1 ELSE 0],
                               id)
               [] key = "LEFT" ->
                    DrawScreen(IF d.selected = FIELD_MIN
                               THEN [touched EXCEPT !.scr[id].edited_min =
                                        IF @ - STEP_LARGE < MIN_TIME_MS THEN MIN_TIME_MS
                                        ELSE @ - STEP_LARGE]
                               ELSE [touched EXCEPT !.scr[id].edited_max =
                                        IF @ - STEP_LARGE < MIN_TIME_MS THEN MIN_TIME_MS
                                        ELSE @ - STEP_LARGE],
                               id)
               [] key = "RIGHT" ->
                    DrawScreen(IF d.selected = FIELD_MIN
                               THEN [touched EXCEPT !.scr[id].edited_min =
                                        IF @ + STEP_LARGE > MAX_TIME_MS THEN MAX_TIME_MS
                                        ELSE @ + STEP_LARGE]
                               ELSE [touched EXCEPT !.scr[id].edited_max =
                                        IF @ + STEP_LARGE > MAX_TIME_MS THEN MAX_TIME_MS
                                        ELSE @ + STEP_LARGE],
                               id)
               [] key \in {"ENTER", "SPACE"} ->
                    IF ValidateValues(d) # ""
                    THEN DrawScreen([w EXCEPT !.scr[id].status_msg = ValidateValues(d)], id)
                    ELSE
                    LET w1 == UartSendCommand(w, "channel_time set min", env.ret1)
                        w2 == UartSendCommand(w1, "channel_time set max", env.ret2)
                        w3 == IF env.ret1 /\ env.ret2
                              THEN [w2 EXCEPT !.scr[id].min_value = d.edited_min,
                                              !.scr[id].max_value = d.edited_max,
                                              !.scr[id].saved = TRUE,
                                              !.scr[id].status_msg = ""]
                              ELSE [w2 EXCEPT !.scr[id].status_msg = "Send failed!"]
                    IN  DrawScreen(w3, id)
               [] key \in {"ESC", "Q", "BACKSPACE"} ->
                    ScreenManagerPop(UartClearLineCallback(w), env)
               [] OTHER -> w


\* the root menu: ENTER opens the chosen entry, the back keys ask for a pop
HomeOnKey(w, id, key, env, choice) ==
    CASE key = "ENTER" ->
            ScreenManagerPush(IF choice.p.null THEN w ELSE Emit(w, "params_alloc", 0, ""),
                              choice.kind, choice.p, env)
      [] key \in {"ESC", "Q", "BACKSPACE"} -> ScreenManagerPop(w, env)
      [] OTHER -> w

\* current_key_dispatch(key): the key goes to the active screen's on_key only
OnKey(w, id, key, env, choice) ==
    LET k == w.scr[id].kind
    IN  CASE k = "home" -> HomeOnKey(w, id, key, env, choice)
          [] k = "text_input" -> TextInputOnKey(w, id, key, env)
          [] k = "network_info" -> NetworkInfoOnKey(w, id, key, env)
          [] k = "arp_hosts" -> ArpHostsOnKey(w, id, key, env)
          [] k = "uart_pins" -> UartPinsOnKey(w, id, key, env)
          [] k = "wardrive" -> WardriveOnKey(w, id, key, env)
          [] k = "wardrive_log" -> WardriveLogOnKey(w, id, key, env)
          [] k = "handshaker" -> HandshakerOnKey(w, id, key, env)
          [] k = "channel_time" -> ChannelTimeOnKey(w, id, key, env)
          [] k = "data_detail" -> DataDetailOnKey(w, id, key, env)

\* tick(): the active screen's on_tick, if it has one
OnTick(w, id, env) ==
    LET k == w.scr[id].kind
    IN  CASE k = "network_info" -> NetworkInfoOnTick(w, id, env)
          [] k = "channel_time" -> ChannelTimeOnTick(w, id)
          [] k = "data_detail" -> DataDetailOnTick(w, id)
          [] OTHER -> w

\* dispatch(line): the registered consumer, called in the receive task
LineCallback(w, line) ==
    LET cb == w.slot.cb
        id == w.slot.ctx
        v == Emit(w, "invoke", id, cb)
    IN  CASE cb = "network_info" -> NetworkInfoUartLineCallback(v, id, line)
          [] cb = "data_detail" -> DataDetailUartLineCallback(v, id, line)
          [] cb = "wardrive" -> WardriveUartLineCallback(v, id, line)
          [] cb = "wardrive_log" -> WardriveLogUartLineCallback(v, id, line)
          [] cb = "handshaker" -> HandshakerUartLineCallback(v, id, line)
          [] cb = "channel_time" -> ChannelTimeOnUartResponse(v, id, line)
          [] OTHER -> w

\* the esp_timer task runs the callback of a started timer with its arg
TimerCallback(w, id) ==
    LET k == w.scr[id].kind
    IN  CASE k = "wardrive" -> WardriveRefreshTimerCallback(w, id)
          [] k = "wardrive_log" -> WardriveLogRefreshTimerCallback(w, id)
          [] k = "handshaker" -> HandshakerRefreshTimerCallback(w, id)
          [] OTHER -> w

----------------------------------------------------------------------------
(* Inputs *)

Keys == {"ENTER", "SPACE", "ESC", "Q", "BACKSPACE", "DEL", "UP", "DOWN", "A"}

\* what the root menu can open, with the params block it hands over
Choices ==
    {[kind |-> k, p |-> NullParams] :
        k \in {"uart_pins", "wardrive", "wardrive_log", "channel_time", "handshaker",
               "network_info", "data_detail", "text_input"}}
    \cup {[kind |-> k, p |-> Params(v, 0)] :
            k \in {"network_info", "data_detail"}, v \in BOOLEAN}
    \cup {[kind |-> k, p |-> Params(TRUE, 0)] : k \in {"handshaker", "text_input"}}

L_success == S_SUCCESS \o <<" ">> \o S_Connected
L_failed == S_FAILED \o <<" ", "x">>
L_min == S_min \o <<":", " ", "1", "0", "0">>
L_max == S_max \o <<":", " ", "3", "0", "0">>
L_num == <<"2", "0", "0">>
L_other == <<"o", "k">>
L_hs == S_handshake \o <<"a", "b">>
L_fix == S_fix_obtained
L_lost == S_fix_lost \o <<"!">>
L_csv == <<"A","A",":","B","B",":","C","C",":","D","D",":","E","E",":","F","F",",","n",",">>

Lines == {L_success, L_failed, L_min, L_max, L_num, L_other, L_hs, L_fix, L_lost, L_csv}

\* lines of the engine's wardrive output
\* fix with coordinates
P_fix ==
    <<"G","P","S"," ","f","i","x"," ","o","b","t","a","i","n","e","d",":"," ","L","a","t","=",
      "1","2",".","3","4","5"," ","L","o","n","=","-","6",".","7","8">>
\* recovered, lon followed by a period
P_rec ==
    <<"G","P","S"," ","f","i","x"," ","r","e","c","o","v","e","r","e","d",":"," ","L","a","t",
      "=","1",".","5"," ","L","o","n","=","2",".","5","."," ","R","e","s","u","m","i","n","g">>
\* fix, trailing period at the end of the line
P_fix_dot ==
    <<"G","P","S"," ","f","i","x"," ","o","b","t","a","i","n","e","d",":"," ","L","a","t","=",
      "1","2",".","3","4","5"," ","L","o","n","=","-","6",".","7","8",".">>
\* a Lat= value with no terminating space
P_fix_nosp ==
    <<"G","P","S"," ","f","i","x"," ","o","b","t","a","i","n","e","d",":"," ","L","a","t","=",
      "9",".","9">>
\* fix lost
P_lost ==
    <<"G","P","S"," ","f","i","x"," ","l","o","s","t","!"," ","P","a","u","s","i","n","g"," ",
      "w","a","r","d","r","i","v","e",".",".",".">>
\* countdown
P_wait ==
    <<"S","t","i","l","l"," ","w","a","i","t","i","n","g"," ","f","o","r"," ","G","P","S"," ",
      "f","i","x",".",".","."," ","(","7","/","3","0"," ","s","e","c","o","n","d","s",")">>
\* countdown without a group
P_wait_none ==
    <<"S","t","i","l","l"," ","w","a","i","t","i","n","g"," ","f","o","r"," ","G","P","S"," ",
      "f","i","x",".",".",".">>
\* group with one integer
P_wait_half ==
    <<"S","t","i","l","l"," ","w","a","i","t","i","n","g"," ","f","o","r"," ","G","P","S"," ",
      "f","i","x",".",".","."," ","(","8","/"," ","s","e","c","o","n","d","s",")">>
\* group without a first integer
P_wait_word ==
    <<"S","t","i","l","l"," ","w","a","i","t","i","n","g"," ","f","o","r"," ","G","P","S"," ",
      "f","i","x",".",".","."," ","(","x","/","3","0"," ","s","e","c","o","n","d","s",")">>
\* group with two integers and no tail
P_wait_open ==
    <<"S","t","i","l","l"," ","w","a","i","t","i","n","g"," ","f","o","r"," ","G","P","S"," ",
      "f","i","x",".",".","."," ","(","9","/","4","0">>
\* a full CSV row
P_csv ==
    <<"A","A",":","B","B",":","C","C",":","D","D",":","E","E",":","F","F",",","n","e","t",",",
      "[","W","]",",","d",",","6",",","-","7","0",",","1",".","2","5",",","2",".","7","5",",",
      "0",",","1",",","W","I","F","I">>
\* a CSV row cut before the coordinates
P_csv_short ==
    <<"A","A",":","B","B",":","C","C",":","D","D",":","E","E",":","F","F",",","a","p",",","[",
      "W","]",",","d",",","6">>
\* a CSV row cut inside the name
P_csv_open ==
    <<"A","A",":","B","B",":","C","C",":","D","D",":","E","E",":","F","F",",","c","u","t">>
\* CSV rows of networks whose name is a marker text
P_csv_fix ==
    <<"A","A",":","B","B",":","C","C",":","D","D",":","E","E",":","F","F",",","G","P","S"," ",
      "f","i","x"," ","o","b","t","a","i","n","e","d",",","[","W","]",",","d",",","6">>
P_csv_lost ==
    <<"A","A",":","B","B",":","C","C",":","D","D",":","E","E",":","F","F",",","G","P","S"," ",
      "f","i","x"," ","l","o","s","t",",","[","W","]",",","d",",","6">>
\* a row whose address column is masked, not hexadecimal
P_csv_masked ==
    <<"x","x",":","x","x",":","x","x",":","x","x",":","x","x",":","x","x",",","a","p",",","[",
      "W","]",",","d",",","6">>
\* an address and its comma with nothing after them
P_csv_bare ==
    <<"A","A",":","B","B",":","C","C",":","D","D",":","E","E",":","F","F",",">>
\* a fix line whose lon has a second sign and a second point
P_fix_signs ==
    <<"G","P","S"," ","f","i","x"," ","o","b","t","a","i","n","e","d",":"," ","L","a","t","=",
      "5"," ","L","o","n","=","-","1","-","2",".","5",".","6"," ">>
\* the lost marker in lower case
P_lost_lower ==
    <<"g","p","s"," ","f","i","x"," ","l","o","s","t">>
\* promisc counter
P_promisc ==
    <<"W","a","r","d","r","i","v","e"," ","p","r","o","m","i","s","c",":"," ","2"," ","u","n",
      "i","q","u","e"," ","n","e","t","w","o","r","k","s">>
\* coordinates line of the logging wardrive
P_gps ==
    <<"G","P","S",":"," ","L","a","t","=","3",".","5"," ","L","o","n","=","4",".","5"," ","A",
      "l","t","=","1">>
\* coordinates line cut inside the lat value
P_gps_nosp ==
    <<"G","P","S",":"," ","L","a","t","=","9",".","9">>
\* log line with trailing white space
P_logged ==
    <<"L","o","g","g","e","d"," ","3"," ","n","e","t","w","o","r","k","s"," ","t","o"," ","/",
      "w",".","c","s","v"," ","\n">>
\* a line no recognizer matches
P_other ==
    <<"I"," ","(","1","2","3",")"," ","w","i","f","i",":"," ","o","k">>
\* a fix line whose lat and lon are longer than their buffers
P_fix_long ==
    <<"G","P","S"," ","f","i","x"," ","o","b","t","a","i","n","e","d",":"," ","L","a","t","=",
      "1","2","3","4","5","6","7","8","9","0",".","1","2","3","4","5","6"," ","L","o","n","=",
      "-","2","3","4","5","6","7","8","9","0",".","1","2","3","4","5","6"," ">>
\* a log line longer than the log buffer: 10 + 120 characters
P_logged_long ==
    <<"L","o","g","g","e","d"," ","9"," ">> \o [i \in 1..120 |-> "x"]
        \o <<" ","n","e","t","w","o","r","k","s"," ","t","o"," ","/","w",".","c","s","v">>

ParseLines ==
    {P_fix, P_rec, P_fix_dot, P_fix_nosp, P_lost, P_wait,
     P_wait_none, P_wait_half, P_wait_word, P_wait_open, P_csv, P_csv_short,
     P_csv_open, P_promisc, P_gps, P_gps_nosp, P_logged, P_other,
     P_fix_long, P_logged_long}

\* lines that try the order and the tests of the recognizers: markers inside
\* rows, rows without an address, a malformed longitude, a marker in lower case
RowLines ==
    {P_fix, P_rec, P_lost, P_wait, P_other, P_csv_fix, P_csv_lost, P_csv_masked,
     P_csv_bare, P_fix_signs, P_lost_lower}

\* the outcomes that matter to a factory
RelCreate(kind) ==
    CASE kind = "wardrive" -> {"alloc_screen", "alloc_data", "timer_ok", "ret1"}
      [] kind = "wardrive_log" -> {"alloc_screen", "alloc_data", "timer_ok", "ret1", "ret2"}
      [] kind = "handshaker" -> {"alloc_screen", "alloc_data", "timer_ok"}
      [] kind = "channel_time" -> {"alloc_screen", "alloc_data", "ret1", "ret2"}
      [] OTHER -> {"alloc_screen", "alloc_data"}

\* the outcomes that matter to the key handler of a screen variant
RelKey(kind, key, choice) ==
    CASE kind = "home" -> IF key = "ENTER" THEN RelCreate(choice.kind) ELSE {}
      [] kind \in {"network_info", "data_detail"} -> {"alloc_screen", "alloc_data", "ret1"}
      [] kind = "channel_time" -> {"ret1", "ret2"}
      [] kind \in {"text_input", "wardrive", "wardrive_log", "handshaker", "uart_pins"} -> {"ret1"}
      [] OTHER -> {}

RelTick(kind) ==
    IF kind = "network_info" THEN {"malloc_ok", "alloc_screen", "alloc_data"} ELSE {}

\* the outcomes to try: everything outside rel succeeds, calloc is not reached
\* when screen_alloc fails, and the heap holds MaxIds screens, MaxPush pushes
EnvsFor(rel) ==
    {e \in Envs : /\ \A f \in DOMAIN e : f \notin rel => e[f]
                  /\ ~e.alloc_screen => e.alloc_data
                  /\ "alloc_screen" \in rel /\ e.alloc_screen
                        => FreeIds(World) # {} /\ npush < MaxPush}

\* the runs explored: no counter of a context past its cap
CountersInBound(w) == \A i \in Ids : w.scr[i].unique_networks <= MaxNetworks

----------------------------------------------------------------------------
(* The state machine *)

\* the state once the root menu is up
InitWorld ==
    [stack |-> <<RootId>>,
     scr |-> [i \in Ids |-> IF i = RootId
                            THEN [NoScreen EXCEPT !.kind = "home", !.obj = TRUE, !.ctx = TRUE]
                            ELSE NoScreen],
     slot |-> EmptySlot, npush |-> 0, npop |-> 0, wifi |-> FALSE,
     cx |-> "main", op |-> "init", tr |-> <<>>]

\* the program is in state w
IsWorld(w) ==
    /\ stack = w.stack
    /\ scr = w.scr
    /\ slot = w.slot
    /\ npush = w.npush
    /\ npop = w.npop
    /\ wifi = w.wifi
    /\ cx = w.cx
    /\ op = w.op
    /\ tr = w.tr
    /\ inflight = {}

Init == IsWorld(InitWorld)

\* main loop: one key event delivered to the active screen
KeyPress ==
    \E key \in Keys :
        \E choice \in IF scr[Top(World)].kind = "home" /\ key = "ENTER"
                       THEN Choices ELSE {[kind |-> "none", p |-> NullParams]} :
            \E env \in EnvsFor(RelKey(scr[Top(World)].kind, key, choice)) :
                Commit(OnKey(Enter(World, "main", "key"), Top(World), key, env, choice))

\* main loop: the per-frame tick of the active screen
Tick ==
    /\ HasOnTick(scr[Top(World)].kind)
    /\ \E env \in EnvsFor(RelTick(scr[Top(World)].kind)) :
           Commit(OnTick(Enter(World, "main", "tick"), Top(World), env))

\* receive task: one complete line handed to the bridge
Dispatch ==
    \E line \in Lines :
        LET w == LineCallback(Enter(World, "rx", "line"), line)
        IN  CountersInBound(w) /\ Commit(w)

\* esp_timer task: a periodic refresh timer fires
TimerFire ==
    \E id \in Ids :
        /\ scr[id].refresh_timer = "running"
        /\ Commit(TimerCallback(Enter(World, "timer", "timer"), id))

Next == KeyPress \/ Tick \/ Dispatch \/ TimerFire

Spec == Init /\ [][Next]_vars

\* the main loop calls tick once per iteration and the timer service fires
\* every started periodic timer; keys and lines come when the user and the
\* engine send them
FairSpec == Spec /\ WF_vars(Tick) /\ WF_vars(TimerFire)

----------------------------------------------------------------------------
(* The wardrive screens under the engine's output: the root menu has opened *)
(* one of the two wardrive screens, and lines and timer ticks follow        *)

InitLine ==
    \E k \in {"wardrive", "wardrive_log"} :
        IsWorld(HomeOnKey(Enter(InitWorld, "main", "key"), RootId, "ENTER", AllOk,
                          [kind |-> k, p |-> NullParams]))

\* receive task: one line of wardrive output handed to the bridge; the
\* trace opens with the line received
DispatchWardrive ==
    \E line \in ParseLines :
        LET w == LineCallback(Emit(Enter(World, "rx", "line"), "line", 0, line), line)
        IN  CountersInBound(w) /\ Commit(w)

NextLine == DispatchWardrive \/ TimerFire

LineSpec == InitLine /\ [][NextLine]_vars

\* receive task handing one of the RowLines to the bridge
DispatchRow ==
    \E line \in RowLines :
        LET w == LineCallback(Emit(Enter(World, "rx", "line"), "line", 0, line), line)
        IN  CountersInBound(w) /\ Commit(w)

NextRow == DispatchRow \/ TimerFire

RowSpec == InitLine /\ [][NextRow]_vars

\* the handshaker screen is up, opened from the root menu
InitHs ==
    IsWorld(HomeOnKey(Enter(InitWorld, "main", "key"), RootId, "ENTER", AllOk,
                      [kind |-> "handshaker", p |-> Params(TRUE, 0)]))

\* SSIDs in the order the engine attacks the scanned networks, and other
\* SSIDs it may report at any time: a ninth one, the empty one, and one
\* longer than a slot
HsScan == <<"a", "b", "c", "d", "e", "f", "g", "h">>
HsLong == [i \in 1..(MAX_SSID_LEN + 2) |-> "x"]
HsOther == {<<"i">>, <<>>, SubSeq(HsLong, 1, MAX_SSID_LEN - 1)}

\* engine output of the handshake attack: a capture of each SSID, captures
\* with a suffix after the SSID or a log prefix before the marker, two long
\* SSIDs that agree on what a slot holds, and a line without the marker
HsLines ==
    {S_handshake \o <<HsScan[i]>> : i \in DOMAIN HsScan}
    \cup {S_handshake \o <<"i">>, S_handshake, L_other,
          S_handshake \o <<"a", " ", "(", "1", ")">>,
          <<"I", " ">> \o S_handshake \o <<"b">>,
          S_handshake \o HsLong,
          S_handshake \o SubSeq(HsLong, 1, MAX_SSID_LEN) \o <<"y">>}

\* the runs explored: the scanned SSIDs are captured in scan order
HsInScanOrder(w) ==
    \A i \in Ids :
        LET scanned == SelectSeq(w.scr[i].captured, LAMBDA x : x \notin HsOther)
        IN  scanned = [j \in 1..Len(scanned) |-> <<HsScan[j]>>]

\* receive task handing one of the HsLines to the bridge
DispatchHs ==
    \E line \in HsLines :
        LET w == LineCallback(Enter(World, "rx", "line"), line)
        IN  HsInScanOrder(w) /\ Commit(w)

NextHs == DispatchHs \/ TimerFire

HsSpec == InitHs /\ [][NextHs]_vars

----------------------------------------------------------------------------
(* Callbacks that overlap the main loop: the receive task and the timer    *)
(* task enter a callback with the context pointer they hold, and the body  *)
(* runs after any number of main-loop handlers                             *)

\* no menu entry goes with the key
NoChoice == [kind |-> "none", p |-> NullParams]

\* the screens whose teardown is raced
RaceKinds == {"wardrive", "channel_time", "handshaker"}

RaceLines == {L_min, L_num, L_fix, L_hs, L_other}

\* the handler commits w and the callbacks in flight become f
Land(w, f) ==
    /\ stack' = w.stack /\ scr' = w.scr /\ slot' = w.slot
    /\ npush' = w.npush /\ npop' = w.npop /\ wifi' = w.wifi
    /\ cx' = w.cx /\ op' = w.op /\ tr' = w.tr
    /\ inflight' = f

\* main loop: a key to the active screen, every allocation and send succeeding
KeyRace ==
    \E key \in {"ENTER", "ESC"} :
        \E choice \in IF scr[Top(World)].kind = "home" /\ key = "ENTER"
                       THEN {[kind |-> k, p |-> IF k = "handshaker" THEN Params(TRUE, 0)
                                                ELSE NullParams] : k \in RaceKinds}
                       ELSE {NoChoice} :
            /\ key = "ENTER" => FreeIds(World) # {} /\ npush < MaxPush
            /\ Commit(OnKey(Enter(World, "main", "key"), Top(World), key, AllOk, choice))

\* receive task: dispatch reads the slot and calls the consumer
EnterLine ==
    /\ slot.cb # "none"
    /\ \A f \in inflight : f.cx # "rx"
    /\ Land(World, inflight \cup {[cx |-> "rx", cb |-> slot.cb, id |-> slot.ctx]})

\* the consumer called with (line, context)
Callback(w, cb, id, line) ==
    CASE cb = "network_info" -> NetworkInfoUartLineCallback(w, id, line)
      [] cb = "data_detail" -> DataDetailUartLineCallback(w, id, line)
      [] cb = "wardrive" -> WardriveUartLineCallback(w, id, line)
      [] cb = "wardrive_log" -> WardriveLogUartLineCallback(w, id, line)
      [] cb = "handshaker" -> HandshakerUartLineCallback(w, id, line)
      [] cb = "channel_time" -> ChannelTimeOnUartResponse(w, id, line)
      [] OTHER -> w

\* receive task: the body of the consumer entered before
RunLine ==
    \E f \in inflight : \E line \in RaceLines :
        /\ f.cx = "rx"
        /\ LET w == Callback(Emit(Enter(World, "rx", "line"), "invoke", f.id, f.cb),
                             f.cb, f.id, line)
           IN  CountersInBound(w) /\ Land(w, inflight \ {f})

\* timer task: a started timer expires and its callback is called
EnterTimer ==
    \E id \in Ids :
        /\ scr[id].refresh_timer = "running"
        /\ \A f \in inflight : f.cx # "timer"
        /\ Land(World, inflight \cup {[cx |-> "timer", cb |-> scr[id].kind, id |-> id]})

\* the refresh callback called with the context
TimerBody(w, cb, id) ==
    CASE cb = "wardrive" -> WardriveRefreshTimerCallback(w, id)
      [] cb = "wardrive_log" -> WardriveLogRefreshTimerCallback(w, id)
      [] cb = "handshaker" -> HandshakerRefreshTimerCallback(w, id)
      [] OTHER -> w

\* timer task: the body of the refresh callback entered before
RunTimer ==
    \E f \in inflight :
        /\ f.cx = "timer"
        /\ Land(TimerBody(Enter(World, "timer", "timer"), f.cb, f.id), inflight \ {f})

NextRace == KeyRace \/ EnterLine \/ RunLine \/ EnterTimer \/ RunTimer

RaceSpec == Init /\ [][NextRace]_vars

----------------------------------------------------------------------------
(* Properties *)

\* the screens that register a line consumer or own a refresh timer
OwnerKinds ==
    {"wardrive", "wardrive_log", "handshaker", "channel_time", "network_info", "data_detail"}

\* the factories that take ownership of a params block
ParamKinds == {"text_input", "network_info", "data_detail", "handshaker"}

\* C1: the stack holds the root plus one screen per successful push less one
\* per pop that destroyed a screen, and within every handler a screen's
\* on_resume hook runs exactly once per pop that reveals it and not otherwise
\* (so never on a push, the push that created the screen included).
C1_StackSizeAndResume ==
    /\ Len(stack) = 1 + npush - npop
    /\ \A id \in Ids :
          Cardinality(CallsOn(tr, "on_resume", id)) =
              IF HasOnResume(scr[id].kind)
              THEN Cardinality(CallsOn(tr, "reveal", id)) ELSE 0

\* a pop has revealed a screen that is not the root and resumed it
C1_Witness ==
    /\ Len(stack) >= 2 /\ npush >= 2 /\ npop >= 1
    /\ CallsOn(tr, "reveal", Top(World)) # {}
    /\ CallsOn(tr, "on_resume", Top(World)) # {}

\* C2: once on_destroy of a registering screen has run, the consumer slot is
\* empty or names a different screen whose screen object and context block
\* are allocated and whose callback it is; no dispatched line reaches a freed
\* context.
C2_SlotNeverStale ==
    /\ slot.cb # "none" =>
          /\ scr[slot.ctx].obj /\ scr[slot.ctx].ctx
          /\ scr[slot.ctx].kind = slot.cb
    /\ \A i \in Calls(tr, "on_destroy") : slot.ctx # tr[i].id
    /\ Calls(tr, "uaf") = {}
    /\ Calls(tr, "double_free") = {}

\* a screen that held the registration has just been destroyed
C2_Witness ==
    /\ \E i \in Calls(tr, "on_destroy") :
          /\ tr[i].a = "registered"
          /\ \E j \in Calls(tr, "free_ctx") : tr[j].id = tr[i].id /\ tr[j].a \in OwnerKinds
    /\ slot = EmptySlot

\* C3 as the spec states it: the consumer slot is empty or belongs to the
\* screen on top of the stack.
C3_SlotOwnedByTop == slot.cb # "none" => slot.ctx = Top(World)

\* C4: in on_destroy of an owner screen the free of the context block comes
\* after a uart_clear_line_callback of the same on_destroy and after the stop
\* and delete of the screen's timer, and no timer is left running.
C4_TeardownBeforeFree ==
    \A i \in Calls(tr, "free_ctx") :
        tr[i].a \in OwnerKinds =>
            /\ \E d \in CallsOn(tr, "on_destroy", tr[i].id) :
                  /\ d < i
                  /\ \E j \in Calls(tr, "clear") : d < j /\ j < i
                  /\ \A j \in CallsOn(tr, "timer_stop", tr[i].id)
                              \cup CallsOn(tr, "timer_delete", tr[i].id) : d < j /\ j < i
            /\ scr[tr[i].id].refresh_timer # "running"

\* a screen with a running timer has been destroyed
C4_Witness ==
    \E i \in Calls(tr, "free_ctx") :
        /\ tr[i].a \in {"wardrive", "handshaker"}
        /\ CallsOn(tr, "timer_delete", tr[i].id) # {}
        /\ Calls(tr, "clear") # {}

\* C5 as the spec states it: every draw is made by a handler of the main loop.
C5_DrawOnlyInMain == \A i \in Calls(tr, "draw") : tr[i].a = "main"

\* C6 as the spec states it: only the main loop writes false to needs_redraw;
\* the receive and timer contexts only set it.
C6_ClearOnlyInMain == \A i \in Calls(tr, "dirty_clear") : tr[i].a = "main"

\* the screens whose on_tick does the deferred redraw
TickDriven == {"network_info", "data_detail"}

\* C7 as the spec states it: an on_tick of a tick-driven screen that finds
\* needs_redraw set draws that screen exactly once and clears the flag, and
\* one that finds it clear draws nothing.
C7_OneDrawPerTick ==
    [][(op' = "tick" /\ scr[Top(World)].kind \in TickDriven) =>
          /\ scr[Top(World)].needs_redraw =>
                /\ Cardinality(CallsOn(tr', "draw", Top(World))) = 1
                /\ ~scr'[Top(World)].needs_redraw
          /\ ~scr[Top(World)].needs_redraw =>
                CallsOn(tr', "draw", Top(World)) = {}]_vars

\* C7, amended: the same, except that an on_tick that finds
\* needs_push_password set does the deferred push instead, draws nothing of
\* its screen and leaves needs_redraw as it found it.
C7_OneDrawPerTickUnlessPush ==
    [][(op' = "tick" /\ scr[Top(World)].kind \in TickDriven) =>
          IF scr[Top(World)].needs_push_password
          THEN /\ CallsOn(tr', "draw", Top(World)) = {}
               /\ scr'[Top(World)].needs_redraw = scr[Top(World)].needs_redraw
               /\ ~scr'[Top(World)].needs_push_password
          ELSE IF scr[Top(World)].needs_redraw
          THEN /\ Cardinality(CallsOn(tr', "draw", Top(World))) = 1
               /\ ~scr'[Top(World)].needs_redraw
          ELSE /\ CallsOn(tr', "draw", Top(World)) = {}
               /\ ~scr'[Top(World)].needs_redraw]_vars

\* an on_tick has answered two or more sets of the flag with one draw
C7_Witness ==
    /\ op = "tick"
    /\ scr[Top(World)].kind \in TickDriven
    /\ CallsOn(tr, "absorbed", Top(World)) # {}
    /\ Cardinality(CallsOn(tr, "draw", Top(World))) = 1
    /\ ~scr[Top(World)].needs_redraw

\* C8: a handler whose push failed leaves the stack, the count of pushes and
\* the screens on the stack as they were, runs no on_resume and no on_destroy
\* hook, and has released the params block it allocated.
C8_FailedPushLeavesStack ==
    [][Calls(tr', "push_fail") # {} =>
          /\ stack' = stack /\ npush' = npush /\ npop' = npop
          /\ \A i \in DOMAIN stack : scr'[stack[i]].obj /\ scr'[stack[i]].ctx
          /\ Calls(tr', "on_resume") = {} /\ Calls(tr', "on_destroy") = {}
          /\ Calls(tr', "push_ok") = {}
          /\ Cardinality(Calls(tr', "params_free")) =
                Cardinality(Calls(tr', "params_alloc"))]_vars

\* a factory handed a params block has returned NULL
C8_Witness ==
    /\ \E i \in Calls(tr, "push_fail") : tr[i].a \in {"text_input", "network_info"}
    /\ Calls(tr, "params_alloc") # {}
    /\ Calls(tr, "params_free") # {}

\* C9: the root screen is always at the bottom of the stack, allocated, and a
\* pop issued on a root-only stack leaves it the active screen.
C9_RootStays ==
    /\ Len(stack) >= 1
    /\ stack[1] = RootId
    /\ scr[RootId].kind = "home" /\ scr[RootId].obj /\ scr[RootId].ctx
    /\ Calls(tr, "pop_noop") # {} => stack = <<RootId>>

\* a pop has been issued on the root-only stack
C9_Witness == Calls(tr, "pop_noop") # {} /\ Top(World) = RootId /\ op = "key"

\* C10: a handler that hands a params block to a factory sees it freed exactly
\* once, on success and on failure, with every read of the block before the
\* free; a NULL params is neither read nor freed.
C10_ParamsFreedOnce ==
    IF Calls(tr, "params_alloc") = {}
    THEN Calls(tr, "params_free") = {} /\ Calls(tr, "params_read") = {}
    ELSE /\ Cardinality(Calls(tr, "params_alloc")) = 1
         /\ \A i \in Calls(tr, "push") : tr[i].a \in ParamKinds
         /\ Cardinality(Calls(tr, "params_free")) = 1
         /\ \A r \in Calls(tr, "params_read") : \A f \in Calls(tr, "params_free") : r < f

\* a factory has read and freed its params block and returned a screen
C10_Witness ==
    /\ \E i \in Calls(tr, "push_ok") : tr[i].a \in ParamKinds
    /\ Calls(tr, "params_read") # {}
    /\ Calls(tr, "params_free") # {}


\* the register and clear calls of the running handler, in order
SlotCalls == Calls(tr, "register") \cup Calls(tr, "clear")

\* C11: the bridge holds at most one (callback, context) pair: the slot is
\* what the running handler's last register or clear call left (a register
\* replaces the pair, a clear empties the slot, whether or not it was already
\* empty), and a dispatched line invokes the callback of the pair in the slot
\* with its context and nothing else, and no callback when the slot is empty.
C11_SingleSlot ==
    /\ [](SlotCalls # {} =>
            LET k == CHOOSE i \in SlotCalls : \A j \in SlotCalls : j <= i
            IN  slot = IF tr[k].e = "clear" THEN EmptySlot
                       ELSE [cb |-> tr[k].a, ctx |-> tr[k].id])
    /\ [][op' = "line" =>
            IF slot = EmptySlot
            THEN tr' = <<>> /\ UNCHANGED <<stack, scr, slot, wifi>>
            ELSE /\ Calls(tr', "invoke") = {1}
                 /\ tr'[1].a = slot.cb /\ tr'[1].id = slot.ctx
                 /\ \A id \in Ids \ {slot.ctx} : scr'[id] = scr[id]]_vars

\* a key handler has cleared the slot twice (the ESC path, then on_destroy)
\* and the slot is empty
C11_Witness ==
    /\ Cardinality(Calls(tr, "clear")) >= 2
    /\ slot = EmptySlot
    /\ op = "key"

\* the calls that paint or that change the screen stack
PaintOrStack ==
    Calls(tr, "draw") \cup Calls(tr, "push") \cup Calls(tr, "push_fail")
        \cup Calls(tr, "pop_noop") \cup Calls(tr, "on_destroy")
        \cup Calls(tr, "reveal") \cup Calls(tr, "on_resume")

\* C12: a line consumer, run by the bridge in the receive task, calls no draw
\* primitive and neither screen_manager_push nor screen_manager_pop.
C12_ConsumerNeitherDrawsNorNavigates == op = "line" => PaintOrStack = {}

\* a consumer has run on a line and has set the dirty flag of its screen
C12_Witness ==
    /\ op = "line"
    /\ Calls(tr, "invoke") # {}
    /\ CallsOn(tr, "dirty_set", tr[1].id) # {}

\* C13: a line consumer writes only fields of its own context: it neither
\* registers nor clears the bridge slot and does not write the shared
\* WiFi-connected status.
C13_ConsumerWritesOwnContextOnly ==
    op = "line" =>
        Calls(tr, "register") \cup Calls(tr, "clear") \cup Calls(tr, "wifi") = {}

\* decimal text of a natural number
RECURSIVE Dec(_)
Dec(n) ==
    LET c == <<"0","1","2","3","4","5","6","7","8","9">>[(n % 10) + 1]
    IN  IF n < 10 THEN <<c>> ELSE Append(Dec(n \div 10), c)

\* answers of the engine to the two read commands
TimeVals == {0, 7, 100, 300, 1500}
MinLine(a) == S_min \o <<":", " ">> \o Dec(a)
MaxLine(b) == S_max \o <<":", " ">> \o Dec(b)

\* the channel-time screens that wait for both answers
Loading2 ==
    {id \in Ids : /\ scr[id].kind = "channel_time" /\ scr[id].ctx
                  /\ scr[id].loading /\ scr[id].loading_count = 2
                  /\ slot = [cb |-> "channel_time", ctx |-> id]}

\* C14: while a channel-time screen loads with loading_count = 2, for all a
\* and b the lines 'min: a' and 'max: b' give the same final state in either
\* order: min_value = edited_min = a, max_value = edited_max = b, loading
\* false, needs_redraw true and the registration cleared.
C14_AnswersCommute ==
    \A id \in Loading2 : \A a, b \in TimeVals :
        LET w0 == Enter(World, "rx", "line")
            x == ChannelTimeOnUartResponse(
                     ChannelTimeOnUartResponse(w0, id, MinLine(a)), id, MaxLine(b))
            y == ChannelTimeOnUartResponse(
                     ChannelTimeOnUartResponse(w0, id, MaxLine(b)), id, MinLine(a))
        IN  /\ x = y
            /\ x.scr[id].min_value = a /\ x.scr[id].edited_min = a
            /\ x.scr[id].max_value = b /\ x.scr[id].edited_max = b
            /\ ~x.scr[id].loading /\ x.scr[id].needs_redraw
            /\ x.slot = EmptySlot
            /\ \A j \in Ids \ {id} : x.scr[j] = scr[j]

\* the bridge has delivered 'min: 100' and 'max: 300' to a loading screen and
\* the second of them has ended the load
C14_Witness ==
    /\ op = "line" /\ Calls(tr, "clear") # {}
    /\ \E id \in Ids :
          /\ scr[id].kind = "channel_time" /\ ~scr[id].loading
          /\ scr[id].min_value = 100 /\ scr[id].edited_min = 100
          /\ scr[id].max_value = 300 /\ scr[id].edited_max = 300
          /\ scr[id].needs_redraw
    /\ slot = EmptySlot

\* the running handler is the consumer of screen id, called on the line
Delivered(id, line) ==
    /\ op = "line"
    /\ CallsOn(tr, "invoke", id) # {}
    /\ \E i \in Calls(tr, "line") : tr[i].a = line

\* the two worked inputs of parse_lat_lon
E_plain == <<"L","a","t","=","1","2",".","3","4","5"," ","L","o","n","=","-","6",".","7","8">>
E_dot == <<"L","a","t","=","1","2",".","3","4","5"," ","L","o","n","=","-","6",".","7","8",".">>

\* inputs of parse_lat_lon: the worked ones, the engine's fix lines, and
\* values cut short, too long, out of order or not numeric
LatLonInputs ==
    {E_plain, E_dot, P_fix, P_rec, P_fix_dot, P_fix_nosp,
     <<"L","a","t","=","1"," ","L","o","n","=","2",".","5",".","6"," ","x">>,
     <<"L","a","t","=","1",".","0"," ","L","o","n","=",".">>,
     <<"L","a","t","="," ","L","o","n","=","5","\n">>,
     <<"L","a","t","=","1","2","3","4","5","6","7","8","9","0",".","1","2","3","4","5"," ","L","o","n","=","8"," ">>,
     <<"L","a","t","=","7"," ","L","o","n","=","1","2","3","4","5","6","7","8","9","0",".","1","2","3","4","5","6">>,
     <<"L","o","n","=","3"," ","L","a","t","=","4"," ">>,
     <<"L","a","t","=","7"," ","L","o","n","=","a","b","c">>,
     <<"L","a","t","=","5"," ","L","o","n","=","-","1","-","2",",","3">>,
     <<"n","o"," ","m","a","r","k","e","r">>}

\* the characters the lon value is made of
NumberChar(str, i) ==
    \/ str[i] \in Digits
    \/ str[i] = "-"
    \/ str[i] = "." /\ i + 1 <= Len(str) /\ str[i + 1] \in Digits

\* the promisc wardrive screens
PromiscIds == {id \in Ids : scr[id].kind = "wardrive" /\ scr[id].ctx}

\* C15: parse_lat_lon on 'Lat=12.345 Lon=-6.78' stores lat '12.345' and lon
\* '-6.78', and the same with a trailing period; in general the lat value ends
\* at the first space after the marker and the lon value at the first
\* character that is not part of a number (each stored when it fits its
\* buffer, lon when it is not empty), and nothing else is written.
C15_LatLonExtent ==
    \A id \in PromiscIds : \A str \in LatLonInputs :
        LET d == scr[id]
            r == ParseLatLon(str, d)
            p == StrStr(str, S_Lat)
            a == p + Len(S_Lat)
            sp == {i \in a..Len(str) : str[i] = " "}
            e == CHOOSE i \in sp : \A j \in sp : i <= j
            q == StrStrFrom(str, e, S_Lon)
            b == q + Len(S_Lon)
            stops == {i \in b..(Len(str) + 1) : i = Len(str) + 1 \/ ~NumberChar(str, i)}
            f == CHOOSE i \in stops : \A j \in stops : i <= j
        IN  /\ str \in {E_plain, E_dot} =>
                /\ r.lat = <<"1","2",".","3","4","5">>
                /\ r.lon = <<"-","6",".","7","8">>
            /\ [r EXCEPT !.lat = d.lat, !.lon = d.lon] = d
            /\ (p = 0 \/ sp = {}) => r = d
            /\ (p # 0 /\ sp # {}) =>
                /\ r.lat = IF e - a < LAT_SIZE THEN SubSeq(str, a, e - 1) ELSE d.lat
                /\ r.lon = IF q # 0 /\ f - b > 0 /\ f - b < LON_SIZE
                           THEN SubSeq(str, b, f - 1) ELSE d.lon

\* the bridge has delivered a fix line whose lon is followed by a period, and
\* the screen holds its two values
C15_Witness ==
    \E id \in PromiscIds :
          /\ Delivered(id, P_rec)
          /\ scr[id].state = "running"
          /\ scr[id].lat = <<"1",".","5">>
          /\ scr[id].lon = <<"2",".","5">>

\* countdown lines without a group or whose group is not '(N/M seconds)'
MalformedCountdowns ==
    {P_wait_none, P_wait_half, P_wait_word, P_wait_open,
     <<"S","t","i","l","l"," ","w","a","i","t","i","n","g"," ","f","o","r"," ","G","P","S"," ",
       "f","i","x",".",".","."," ","(","9","/","4","0"," ","s","e","c","s",")">>,
     <<"S","t","i","l","l"," ","w","a","i","t","i","n","g"," ","f","o","r"," ","G","P","S"," ",
       "f","i","x",".",".","."," ","(","9","-","4","0"," ","s","e","c","o","n","d","s",")">>,
     <<"S","t","i","l","l"," ","w","a","i","t","i","n","g"," ","f","o","r"," ","G","P","S"," ",
       "f","i","x",".",".","."," ","9","/","4","0"," ","s","e","c","o","n","d","s",")">>}

\* C16: on 'Still waiting for GPS fix... (7/30 seconds)' the wardrive consumer
\* sets gps_wait_elapsed = 7 and gps_wait_timeout = 30; on such a line with no
\* parenthesis or with a malformed '(N/M seconds)' group it leaves both at
\* their previous values.
C16_CountdownWholeGroupOrNothing ==
    \A id \in PromiscIds :
        LET d == scr[id]
            good == WardriveParseLine(d, P_wait).d
        IN  /\ good.gps_wait_elapsed = 7 /\ good.gps_wait_timeout = 30
            /\ \A line \in MalformedCountdowns :
                  LET r == WardriveParseLine(d, line).d
                  IN  /\ r.gps_wait_elapsed = d.gps_wait_elapsed
                      /\ r.gps_wait_timeout = d.gps_wait_timeout

\* rows with a MAC prefix that end before the coordinates or inside the name
TruncatedRows ==
    {P_csv_short, P_csv_open,
     <<"A","A",":","B","B",":","C","C",":","D","D",":","E","E",":","F","F",",","x">>,
     <<"A","A",":","B","B",":","C","C",":","D","D",":","E","E",":","F","F",",","a","p",",","[",
       "W","]",",","d",",","6",",","-","7","0",",","1",".","2","5",",","2",".","7","5">>,
     <<"A","A",":","B","B",":","C","C",":","D","D",":","E","E",":","F","F",",",",","[","W","]",
       ",","d">>,
     <<"A","A",":","B","B",":","C","C",":","D","D",":","E","E",":","F","F",",","n","n","n","n",
       "n","n","n","n","n","n","n","n","n","n","n","n","n","n","n","n","n","n","n","n","n","n",
       "n","n","n","n","n","n","n","n","n","n","n","n","n","n","n","n","n","n","n","n","n","n",
       "n","n","n","n","n","n","n","n","n","n","n","n","n","n","n","n",",","[","W","]">>,
     <<"A","A",":","B","B",":","C","C",":","D","D",":","E","E",":","F","F",",","n","n","n","n",
       "n","n","n","n","n","n","n","n","n","n","n","n","n","n","n","n","n","n","n","n","n","n",
       "n","n","n","n","n","n","n","n","n","n","n","n","n","n","n","n","n","n","n","n","n","n",
       "n","n","n","n","n","n","n","n","n","n","n","n","n","n","n","n">>}

\* C17: a row with a valid MAC prefix that is truncated (fewer than 8 commas,
\* or a name with no closing comma) never writes past last_ssid, lat or lon
\* and leaves lat, lon, and last_ssid when the name has no closing comma, at
\* their previous values.
C17_TruncatedRowKeepsFields ==
    \A id \in PromiscIds :
        /\ Len(scr[id].last_ssid) < LAST_SSID_SIZE
        /\ Len(scr[id].lat) < LAT_SIZE
        /\ Len(scr[id].lon) < LON_SIZE
        /\ \A line \in TruncatedRows :
              LET d == scr[id]
                  r == WardriveParseLine(d, line).d
              IN  /\ HasMacPrefix(line) /\ Cardinality(Commas(line)) < 8
                  /\ Len(r.last_ssid) < LAST_SSID_SIZE
                  /\ r.lat = d.lat /\ r.lon = d.lon
                  /\ Cardinality(Commas(line)) < 2 => r.last_ssid = d.last_ssid

\* after a full row, the bridge has delivered a row cut before the
\* coordinates: the name is the new one, lat and lon are those of the full row
C17_Witness ==
    \E id \in PromiscIds :
        /\ Delivered(id, P_csv_short)
        /\ scr[id].last_ssid = <<"a","p">>
        /\ scr[id].lat = <<"1",".","2","5">>
        /\ scr[id].lon = <<"2",".","7","5">>

\* C18: CSV field extraction is idempotent: the same MAC-CSV row delivered
\* twice in succession leaves the wardrive context as one delivery does.
C18_RowTwiceIsRowOnce ==
    \A id \in PromiscIds : \A line \in TruncatedRows \cup {P_csv} :
        LET once == WardriveParseLine(scr[id], line).d
        IN  WardriveParseLine(once, line).d = once

\* lines that match no recognizer of either consumer
UnknownLines ==
    {P_other, L_other, <<>>,
     <<"L","a","t","=","1",".","5"," ","L","o","n","=","2",".","5"," ">>,
     <<"A","A",":","B","B",":","C","C",":","D","D",":","E","E",":","F","F">>,
     <<"A","A","-","B","B","-","C","C","-","D","D","-","E","E","-","F","F",",","n","e","t",",",
       "[","W","]",",","d",",","6",",","-","7","0",",","1",".","2","5",",","2",".","7","5",",",
       "0">>,
     <<"S","U","C","C","E","S","S">>,
     <<"C","o","n","n","e","c","t","e","d">>,
     <<"g","p","s"," ","f","i","x"," ","o","b","t","a","i","n","e","d">>}

\* the screens of a kind with a live context
LiveIds(k) == {id \in Ids : scr[id].kind = k /\ scr[id].ctx}

\* C19: a line that matches none of a consumer's recognizers is ignored: the
\* wardrive consumers and the network-info consumer leave every field of the
\* screen context, the state and needs_redraw included, and everything else
\* unchanged, and make no call.
C19_UnknownLineIgnored ==
    \A line \in UnknownLines :
        LET w0 == Enter(World, "rx", "line")
        IN  /\ \A id \in LiveIds("wardrive") :
                  WardriveUartLineCallback(w0, id, line) = w0
            /\ \A id \in LiveIds("wardrive_log") :
                  WardriveLogUartLineCallback(w0, id, line) = w0
            /\ \A id \in LiveIds("network_info") :
                  NetworkInfoUartLineCallback(w0, id, line) = w0

\* the bridge has delivered an unknown line to a wardrive screen that is
\* running, or to a network-info screen that waits for the connect result
C19_Witness ==
    \E id \in Ids :
        /\ op = "line"
        /\ CallsOn(tr, "invoke", id) # {}
        /\ Len(tr) = 1
        /\ \/ scr[id].kind = "wardrive" /\ scr[id].state = "running"
           \/ scr[id].kind = "network_info" /\ scr[id].state = "connecting"

\* lines with a Lat= marker and no space after it
OpenLatLines ==
    {P_fix_nosp, P_gps_nosp,
     <<"G","P","S"," ","f","i","x"," ","r","e","c","o","v","e","r","e","d",":"," ","L","a","t",
       "=","9",".","9",",","L","o","n","=","8",".","8">>,
     <<"G","P","S",":"," ","L","a","t","=","9",".","9",",","L","o","n","=","8",".","8","\n">>,
     <<"G","P","S"," ","f","i","x"," ","o","b","t","a","i","n","e","d",":"," ","L","a","t","=">>}

\* C20: a line with a 'Lat=' marker whose value no space terminates leaves
\* the stored lat and lon of the wardrive context unchanged.
C20_OpenLatKeepsCoordinates ==
    \A line \in OpenLatLines :
        /\ \A id \in LiveIds("wardrive") :
              LET r == WardriveParseLine(scr[id], line).d
              IN  /\ ParseLatLon(line, scr[id]) = scr[id]
                  /\ r.lat = scr[id].lat /\ r.lon = scr[id].lon
        /\ \A id \in LiveIds("wardrive_log") :
              LET r == WardriveLogParseLine(scr[id], line).d
              IN  r.lat = scr[id].lat /\ r.lon = scr[id].lon

\* a wardrive screen that holds coordinates has been handed a fix line cut
\* inside the lat value, and holds the same coordinates
C20_Witness ==
    \E id \in PromiscIds :
        /\ Delivered(id, P_fix_nosp)
        /\ scr[id].lat = <<"1",".","5">>
        /\ scr[id].lon = <<"2",".","5">>

\* lines that carry a value longer than the buffer it would go to
OverlongLines ==
    {P_fix_long, P_logged_long,
     <<"A","A",":","B","B",":","C","C",":","D","D",":","E","E",":","F","F",",","n","e","t",",",
       "[","W","]",",","d",",","6",",","-","7","0",",","1","2","3","4","5","6","7","8","9","0",
       ".","1","2","3","4","5","6",",","-","2","3","4","5","6","7","8","9","0",".","1","2","3",
       "4","5","6",",","0">>,
     <<"A","A",":","B","B",":","C","C",":","D","D",":","E","E",":","F","F",",","n","n","n","n",
       "n","n","n","n","n","n","n","n","n","n","n","n","n","n","n","n","n","n","n","n","n","n",
       "n","n","n","n","n","n","n","n","n","n","n","n","n","n","n","n","n","n","n","n","n","n",
       "n","n","n","n","n","n","n","n","n","n","n","n","n","n","n","n",",","[","W","]",",","d",
       ",","6",",","-","7","0",",","1",".","2","5",",","2",".","7","5",",","0">>,
     <<"G","P","S",":"," ","L","a","t","=","1","2","3","4","5","6","7","8","9","0",".","1","2",
       "3","4","5","6"," ","L","o","n","=","-","2","3","4","5","6","7","8","9","0",".","1","2",
       "3","4","5","6"," ">>}

\* both wardrive screens
WardriveIds == LiveIds("wardrive") \cup LiveIds("wardrive_log")

\* the context of screen id after its consumer has parsed the line
Parsed(id, line) ==
    IF scr[id].kind = "wardrive" THEN WardriveParseLine(scr[id], line).d
    ELSE WardriveLogParseLine(scr[id], line).d

\* v stands in the line as a whole value: after '=' or ',' and up to one of
\* the characters in ends or to the end of the line
WholeValue(line, v, ends) ==
    \E p \in 2..(Len(line) + 1 - Len(v)) :
        /\ line[p - 1] \in {"=", ","}
        /\ SubSeq(line, p, p + Len(v) - 1) = v
        /\ p + Len(v) > Len(line) \/ line[p + Len(v)] \in ends

\* the parsed-field buffers hold terminated strings
BuffersTerminated(d) ==
    /\ Len(d.lat) <= LAT_SIZE - 1
    /\ Len(d.lon) <= LON_SIZE - 1
    /\ Len(d.last_ssid) <= LAST_SSID_SIZE - 1
    /\ Len(d.last_log_line) <= MAX_LOG_LINE - 1

\* lat, lon and last_ssid after a line are the old value or a whole value of
\* the line
FieldsWhole(d, r, line) ==
    /\ r.lat = d.lat \/ WholeValue(line, r.lat, {" ", ","})
    /\ r.lon = d.lon \/ WholeValue(line, r.lon, {" ", ",", ".", "\n", "\r"})
    /\ r.last_ssid = d.last_ssid \/ WholeValue(line, r.last_ssid, {","})

\* the text of a log line from its marker on, what a copy of n characters of
\* it leaves once trimmed
LogText(line) == SubSeq(line, StrStr(line, S_Logged), Len(line))
LogCopy(line, n) ==
    TrimTail(SubSeq(LogText(line), 1, IF Len(LogText(line)) < n THEN Len(LogText(line)) ELSE n))

\* C21 as stated: after any lines every parsed-field buffer is terminated
\* within its capacity (lat and lon at most 15 characters, last_ssid 63,
\* last_log_line 127) and a value that does not fit is never partially
\* committed: each field is its old value or the whole value of the line.
C21_BuffersTerminatedAllOrNothing ==
    \A id \in WardriveIds :
        /\ BuffersTerminated(scr[id])
        /\ \A line \in ParseLines \cup OverlongLines :
              LET d == scr[id]
                  r == Parsed(id, line)
              IN  /\ BuffersTerminated(r)
                  /\ FieldsWhole(d, r, line)
                  /\ \/ r.last_log_line = d.last_log_line
                     \/ r.last_log_line = LogCopy(line, Len(line))

\* C21 for the code: the buffers are terminated within their capacity; lat,
\* lon and last_ssid are all or nothing; last_log_line is the old value or the
\* first 127 characters of the log text, trimmed.
C21_BuffersTerminated ==
    \A id \in WardriveIds :
        /\ BuffersTerminated(scr[id])
        /\ \A line \in ParseLines \cup OverlongLines :
              LET d == scr[id]
                  r == Parsed(id, line)
              IN  /\ BuffersTerminated(r)
                  /\ FieldsWhole(d, r, line)
                  /\ \/ r.last_log_line = d.last_log_line
                     \/ r.last_log_line = LogCopy(line, MAX_LOG_LINE - 1)

\* the logging wardrive screen has been handed a log line of 149 characters
\* and holds its first 127
C21_Witness ==
    \E id \in LiveIds("wardrive_log") :
        /\ Delivered(id, P_logged_long)
        /\ Len(scr[id].last_log_line) = MAX_LOG_LINE - 1
        /\ scr[id].last_log_line = SubSeq(P_logged_long, 1, MAX_LOG_LINE - 1)

\* the commands the running handler has handed to uart_send_command
Sends == Calls(tr, "send") \cup Calls(tr, "send_fail")

\* C22: whenever uart_send_command returns a failure status to a screen, the
\* screen records a user-visible status message for the failure, and the
\* handler does not send the command again.
C22_SendFailureSurfaced ==
    /\ Calls(tr, "send_fail") # {} =>
            \E id \in Ids : scr[id].ctx /\ scr[id].status_msg = "Send failed!"
    /\ \A i, j \in Sends : i # j => tr[i].a # tr[j].a

\* the screens that redraw from a periodic timer
TimerKinds == {"wardrive", "wardrive_log", "handshaker"}

\* screen id is active, has no refresh timer, and a line has set its flag
TimerlessDirty(id) ==
    /\ scr[id].kind \in TimerKinds /\ scr[id].ctx
    /\ Top(World) = id
    /\ scr[id].refresh_timer = "none"
    /\ scr[id].needs_redraw

\* a pushed wardrive or handshaker screen is on top and owns the slot
TimerKindCreated ==
    \A i \in Calls(tr, "push_ok") :
        tr[i].a \in TimerKinds
            => /\ tr[i].id # 0 /\ Top(World) = tr[i].id
               /\ slot = [cb |-> tr[i].a, ctx |-> tr[i].id]

LoadingTop ==
    /\ scr[Top(World)].kind = "channel_time"
    /\ scr[Top(World)].ctx /\ scr[Top(World)].loading

BackKeys == {"ESC", "Q", "BACKSPACE"}

\* what the key does to the loading screen on top
LoadingKey(key, env) ==
    OnKey(Enter(World, "main", "key"), Top(World), key, env, NoChoice)

\* a back key clears the registration and pops the loading screen
BacksOut(r) ==
    /\ Calls(r.tr, "clear") # {} /\ r.slot = EmptySlot
    /\ CallsOn(r.tr, "on_destroy", Top(World)) # {}
    /\ r.stack = SubSeq(stack, 1, Len(stack) - 1)

\* context id stops loading in this step
LoadingEnds(id) ==
    /\ scr[id].kind = "channel_time" /\ scr[id].ctx /\ scr[id].loading
    /\ scr'[id].kind = "channel_time" /\ scr'[id].ctx /\ ~scr'[id].loading

\* the step is the line consumer of id taking loading_count to 0
LoadedByLine(id) ==
    /\ op' = "line" /\ CallsOn(tr', "invoke", id) # {}
    /\ scr[id].loading_count > 0 /\ scr'[id].loading_count = 0

\* C24: while a channel-time screen is loading, a tick and every key other
\* than ESC/Q/BACKSPACE leave the whole state unchanged and send nothing;
\* ESC/Q/BACKSPACE clear the registration and pop; loading turns false only in
\* the line consumer, when loading_count reaches 0; the stack changes only by
\* that pop.
C24_LoadingSteadyState ==
    /\ [](LoadingTop =>
            /\ \A key \in Keys \ BackKeys :
                 \A env \in EnvsFor(RelKey("channel_time", key, NoChoice)) :
                     LoadingKey(key, env) = Enter(World, "main", "key")
            /\ OnTick(Enter(World, "main", "tick"), Top(World), AllOk)
                    = Enter(World, "main", "tick")
            /\ \A key \in BackKeys :
                 \A env \in EnvsFor(RelKey("channel_time", key, NoChoice)) :
                     BacksOut(LoadingKey(key, env)))
    /\ [][\A id \in Ids : LoadingEnds(id) => LoadedByLine(id)]_vars
    /\ [][LoadingTop /\ stack' # stack
             => (op' = "key" /\ CallsOn(tr', "on_destroy", Top(World)) # {})]_vars

\* a tick has just run on a channel-time screen that is still loading
C24_Witness == LoadingTop /\ op = "tick" /\ tr = <<>>

\* CSV rows that also contain a GPS marker text
MarkerRows == {P_csv_fix, P_csv_lost}

\* C25: in both wardrive line consumers the first matching recognizer wins: a
\* line with the MAC CSV prefix that also contains 'GPS fix obtained' or
\* 'GPS fix lost' is handled by the CSV branch only; it does not change the
\* state and no later recognizer runs.
C25_CsvRowWinsOverMarkers ==
    [][\A id \in WardriveIds :
          \A line \in MarkerRows :
              Delivered(id, line)'
                  => /\ HasMacPrefix(line)
                     /\ scr'[id].state = scr[id].state
                     /\ scr'[id].lat = scr[id].lat
                     /\ scr'[id].gps_wait_elapsed = scr[id].gps_wait_elapsed]_vars

\* the same for the promisc consumer alone
PromiscCsvRowWins ==
    [][\A id \in LiveIds("wardrive") :
          \A line \in MarkerRows :
              Delivered(id, line)'
                  => scr'[id].state = scr[id].state /\ scr'[id].lat = scr[id].lat]_vars

HexDigits ==
    {"0", "1", "2", "3", "4", "5", "6", "7", "8", "9",
     "a", "b", "c", "d", "e", "f", "A", "B", "C", "D", "E", "F"}

\* six groups of two hexadecimal digits separated by colons, then a comma
IsMacRow(line) ==
    /\ Len(line) >= 18
    /\ \A g \in 0..5 : line[3 * g + 1] \in HexDigits /\ line[3 * g + 2] \in HexDigits
    /\ \A g \in 1..5 : line[3 * g] = ":"
    /\ line[18] = ","

\* C26: a wardrive consumer treats a line as a CSV row if and only if the
\* line begins with six groups of two hexadecimal digits separated by colons
\* (offsets 2, 5, 8, 11, 14) and has a comma at offset 17; the promisc
\* consumer counts each such row.
C26_CsvRowIffMacPrefix ==
    [][\A id \in WardriveIds :
          \A line \in RowLines :
              Delivered(id, line)'
                  => /\ HasMacPrefix(line) <=> IsMacRow(line)
                     /\ scr[id].kind = "wardrive" /\ IsMacRow(line)
                           => scr'[id].unique_networks = scr[id].unique_networks + 1]_vars

\* every delivered row with a hexadecimal address and something after the
\* comma is counted by the promisc consumer
HexRowsCounted ==
    [][\A id \in LiveIds("wardrive") :
          \A line \in RowLines \ {P_csv_bare} :
              Delivered(id, line)' /\ IsMacRow(line)
                  => /\ HasMacPrefix(line)
                     /\ scr'[id].unique_networks = scr[id].unique_networks + 1]_vars

\* an optional leading '-', then digits with at most one '.'
LonShape(v) ==
    /\ \A i \in 1..Len(v) : v[i] \in Digits \cup {"-", "."}
    /\ \A i \in 1..Len(v) : v[i] = "-" => i = 1
    /\ Cardinality({i \in 1..Len(v) : v[i] = "."}) <= 1

\* the lines that reach parse_lat_lon
FixLines ==
    {l \in RowLines :
        /\ ~HasMacPrefix(l) /\ ~Contains(l, S_still_waiting)
        /\ Contains(l, S_fix_obtained) \/ Contains(l, S_fix_recovered)}

\* C27: the lon value parse_lat_lon commits is an optional leading '-' and
\* digits with at most one '.': '-' stands only at index 0 and there is at
\* most one '.'.
C27_LonShape ==
    [][\A id \in LiveIds("wardrive") :
          \A line \in FixLines :
              Delivered(id, line)'
                  => scr'[id].lon = scr[id].lon \/ LonShape(scr'[id].lon)]_vars

\* the committed lon is made of digits, '-' and '.' only
LonCharsOnly ==
    [][\A id \in LiveIds("wardrive") :
          \A line \in FixLines :
              Delivered(id, line)'
                  => \A i \in 1..Len(scr'[id].lon) :
                         scr'[id].lon[i] \in Digits \cup {"-", "."}]_vars

\* the screen after its consumer has taken line p, then line q
TwoAnswers(id, p, q) ==
    ChannelTimeOnUartResponse(
        ChannelTimeOnUartResponse(Enter(World, "rx", "line"), id, p), id, q).scr[id]

\* two unlabeled integers are taken as min, then max
UnlabeledInOrder ==
    \A id \in Loading2 : \A a, b \in TimeVals :
        LET u == TwoAnswers(id, Dec(a), Dec(b))
        IN  /\ u.min_value = a /\ u.edited_min = a
            /\ u.max_value = b /\ u.edited_max = b

\* C28: after a reset (loading_count = 2) the first unlabeled integer line is
\* stored as min and edited_min and the second as max and edited_max, and an
\* unlabeled integer never overwrites a field that a labeled response of the
\* same loading window has filled.
C28_UnlabeledFillsByPosition ==
    /\ UnlabeledInOrder
    /\ \A id \in Loading2 : \A a, c \in TimeVals :
          /\ TwoAnswers(id, MinLine(a), Dec(c)).min_value = a
          /\ TwoAnswers(id, MaxLine(a), Dec(c)).max_value = a

\* the line reaches the marker tests of the promisc consumer
PastRowAndCountdown(line) == ~HasMacPrefix(line) /\ ~Contains(line, S_still_waiting)

\* the state the promisc consumer takes on a line that holds a marker
MarkerState(line) ==
    IF Contains(line, S_fix_obtained) THEN "running"
    ELSE IF Contains(line, S_fix_lost) THEN "gps_lost"
    ELSE IF Contains(line, S_fix_recovered) THEN "running"
    ELSE "-"

\* C29: the state of a promisc wardrive screen changes only on a line that
\* holds a marker (matched with its case): 'GPS fix obtained' and
\* 'GPS fix recovered' give RUNNING, 'GPS fix lost' gives GPS_LOST; once the
\* state has left WAITING_GPS no line brings it back.
C29_StateFollowsMarkers ==
    [][\A id \in LiveIds("wardrive") :
          /\ scr'[id].state # scr[id].state
                => \E line \in RowLines :
                       /\ Delivered(id, line)'
                       /\ scr'[id].state = MarkerState(line)
          /\ \A line \in RowLines :
                Delivered(id, line)' /\ PastRowAndCountdown(line) /\ MarkerState(line) # "-"
                    => scr'[id].state = MarkerState(line)
          /\ scr[id].state # "waiting_gps" => scr'[id].state # "waiting_gps"]_vars

\* a promisc screen has gone to GPS_LOST on the lost marker
C29_Witness ==
    \E id \in LiveIds("wardrive") :
        Delivered(id, P_lost) /\ scr[id].state = "gps_lost"

\* the active channel-time screen has its answers and its flag set
LoadedDirty(id) ==
    /\ scr[id].kind = "channel_time" /\ scr[id].ctx /\ Top(World) = id
    /\ ~scr[id].loading /\ scr[id].needs_redraw

\* the flag of channel-time context id is cleared in this step
FlagCleared(id) ==
    /\ scr[id].kind = "channel_time" /\ scr[id].ctx /\ scr[id].needs_redraw
    /\ scr'[id].kind = "channel_time" /\ scr'[id].ctx /\ ~scr'[id].needs_redraw

\* a loaded channel-time screen is drawn again by a tick, unless the user
\* presses a key or the screen is left first
LoadedGetsDrawn ==
    \A id \in Ids :
        LoadedDirty(id) ~>
            \/ Top(World) # id
            \/ op = "key"
            \/ op = "tick" /\ CallsOn(tr, "draw", id) # {}

InfoTop == scr[Top(World)].kind = "network_info" /\ scr[Top(World)].ctx

\* the stack operations of a call trace
StackCalls(t) ==
    Calls(t, "push") \cup Calls(t, "on_destroy") \cup Calls(t, "pop_noop")

\* ENTER or SPACE in STATE_VIEW, once or twice: only the request flag is set
KeyOnlyRequests ==
    InfoTop /\ scr[Top(World)].state = "view" =>
        \A key \in {"ENTER", "SPACE"} :
            LET w == Enter(World, "main", "key")
                r == OnKey(w, Top(World), key, AllOk, NoChoice)
            IN  /\ r = [w EXCEPT !.scr[Top(World)].needs_push_password = TRUE]
                /\ OnKey(r, Top(World), key, AllOk, NoChoice) = r

\* the world after on_tick of the network-info screen on top
InfoTick(env) == OnTick(Enter(World, "main", "tick"), Top(World), env)

\* on_tick has pushed exactly one text-input screen and cleared the request
PushedOne(r) ==
    /\ ~r.scr[Top(World)].needs_push_password
    /\ Cardinality(Calls(r.tr, "push")) = 1
    /\ \A i \in Calls(r.tr, "push") : r.tr[i].a = "text_input"
    /\ Len(r.stack) = Len(stack) + 1
    /\ SubSeq(r.stack, 1, Len(stack)) = stack
    /\ r.scr[Top(r)].kind = "text_input" /\ r.scr[Top(r)].on_submit = Top(World)

\* on_tick has dropped the request and left the stack alone
DroppedRequest(r) ==
    /\ ~r.scr[Top(World)].needs_push_password
    /\ r.stack = stack
    /\ Cardinality(Calls(r.tr, "push")) <= 1

\* a tick with no request pending pushes nothing
IdleTickPushesNothing ==
    InfoTop /\ ~scr[Top(World)].needs_push_password =>
        \A env \in Envs :
            InfoTick(env).stack = stack /\ StackCalls(InfoTick(env).tr) = {}

\* C31 as stated: ENTER/SPACE in STATE_VIEW, any number of times, mutates no
\* stack inside on_key; the next on_tick pushes exactly one text-input screen
\* and clears needs_push_password; later ticks push nothing until the next
\* request.
C31_DeferredPushAlways ==
    /\ KeyOnlyRequests
    /\ IdleTickPushesNothing
    /\ InfoTop /\ scr[Top(World)].needs_push_password /\ FreeIds(World) # {} =>
           \A env \in Envs : PushedOne(InfoTick(env))

\* C31: ENTER/SPACE in STATE_VIEW, any number of times, mutates no stack
\* inside on_key; the next on_tick clears needs_push_password and pushes
\* exactly one text-input screen when the parameter block and the screen can
\* be allocated, and nothing when they cannot; later ticks push nothing until
\* the next request.
C31_DeferredPush ==
    /\ KeyOnlyRequests
    /\ IdleTickPushesNothing
    /\ InfoTop /\ scr[Top(World)].needs_push_password /\ FreeIds(World) # {} =>
           \A env \in Envs :
               IF env.malloc_ok /\ env.alloc_screen /\ env.alloc_data
               THEN PushedOne(InfoTick(env))
               ELSE DroppedRequest(InfoTick(env))

\* a tick has pushed the password screen over a network-info screen and the
\* request is cleared
C31_Witness ==
    /\ op = "tick" /\ Len(stack) >= 2
    /\ scr[Top(World)].kind = "text_input"
    /\ Cardinality(Calls(tr, "push")) = 1
    /\ scr[stack[Len(stack) - 1]].kind = "network_info"
    /\ ~scr[stack[Len(stack) - 1]].needs_push_password

\* C32: under every interleaving of the main context (key handling, clear of
\* the registration, pop, on_destroy, free of the context) with a line consumer
\* already executing in the receive context and a refresh callback already
\* executing in the timer context, no callback reads or writes a screen
\* context after on_destroy has freed it.
C32_NoCallbackAfterFree ==
    op \in {"line", "timer"} => Calls(tr, "uaf") = {}

\* answers that carry values no screen holds before a load
FreshVals == {7, 8}
FreshAnswers ==
    {MinLine(v) : v \in FreshVals} \cup {MaxLine(v) : v \in FreshVals}
        \cup {Dec(v) : v \in FreshVals}

\* C33: whenever loading becomes false on the channel-time screen, min_value
\* and max_value have each been assigned from a response line since
\* loading_count was reset to 2: no sequence of response lines ends the load
\* with one value still at its pre-load value and the other assigned twice.
C33_BothValuesLoaded ==
    \A id \in Loading2 :
        scr[id].min_value \notin FreshVals /\ scr[id].max_value \notin FreshVals =>
            \A p, q \in FreshAnswers :
                LET r == TwoAnswers(id, p, q)
                IN  ~r.loading => r.min_value \in FreshVals /\ r.max_value \in FreshVals

\* a labeled min answer followed by a labeled max answer, in either order,
\* loads both values
LabeledPairLoadsBoth ==
    \A id \in Loading2 : \A a, b \in FreshVals :
        /\ ~TwoAnswers(id, MinLine(a), MaxLine(b)).loading
        /\ TwoAnswers(id, MinLine(a), MaxLine(b)).min_value = a
        /\ TwoAnswers(id, MaxLine(b), MinLine(a)).max_value = b

\* value pairs the engine may report, inside and outside the limits
EngineVals == {7, 100, 1500, 2000}

\* the world once the screen on top has loaded min = a and max = b
LoadedWorld(id, a, b) ==
    ChannelTimeOnUartResponse(
        ChannelTimeOnUartResponse(Enter(World, "rx", "line"), id, MinLine(a)), id, MaxLine(b))

\* the world after the keys ks, in order, on screen id
RECURSIVE AfterKeys(_, _, _)
AfterKeys(w, id, ks) ==
    IF ks = <<>> THEN w
    ELSE AfterKeys(ChannelTimeOnKey(Enter(w, "main", "key"), id, Head(ks), AllOk), id, Tail(ks))

\* key sequences that end in LEFT or RIGHT on either field
AdjustKeys ==
    {<<k>> : k \in {"LEFT", "RIGHT"}}
        \cup {<<m, k>> : m \in {"UP", "DOWN", "LEFT", "RIGHT"}, k \in {"LEFT", "RIGHT"}}

\* the field the last LEFT or RIGHT has adjusted
Adjusted(d) == IF d.selected = FIELD_MIN THEN d.edited_min ELSE d.edited_max

\* C34: once the channel-time screen has loaded, for every value pair the
\* engine reports and every sequence of UP/DOWN/LEFT/RIGHT keys, after a LEFT
\* or RIGHT key the adjusted field lies within MIN_TIME_MS..MAX_TIME_MS.
C34_AdjustedWithinLimits ==
    \A id \in Loading2 :
        Top(World) = id =>
            \A a, b \in EngineVals : \A ks \in AdjustKeys :
                LET d == AfterKeys(LoadedWorld(id, a, b), id, ks).scr[id]
                IN  MIN_TIME_MS <= Adjusted(d) /\ Adjusted(d) <= MAX_TIME_MS

\* the same when the engine reports values within the limits
AdjustedWithinLimitsFromValid ==
    \A id \in Loading2 :
        Top(World) = id =>
            \A a, b \in {100, 300, 1500} : \A ks \in AdjustKeys :
                LET d == AfterKeys(LoadedWorld(id, a, b), id, ks).scr[id]
                IN  MIN_TIME_MS <= Adjusted(d) /\ Adjusted(d) <= MAX_TIME_MS

\* the active screen is a channel-time screen that has loaded
EditTop ==
    /\ scr[Top(World)].kind = "channel_time"
    /\ scr[Top(World)].ctx /\ ~scr[Top(World)].loading

\* the commands a call trace has sent, in order
SentIn(t) ==
    [i \in 1..Cardinality(Calls(t, "send") \cup Calls(t, "send_fail")) |->
        LET ss == Calls(t, "send") \cup Calls(t, "send_fail")
        IN  t[CHOOSE k \in ss : Cardinality({m \in ss : m <= k}) = i].a]

ValidationMessages == {"Min must be 100-1500 ms", "Max must be 100-1500 ms", "Min must be < Max"}

\* what ENTER or SPACE did to the loaded screen d, giving r with call trace t
SavedAsClaimed(d, r, t, env) ==
    LET valid == /\ MIN_TIME_MS <= d.edited_min /\ d.edited_min < d.edited_max
                 /\ d.edited_max <= MAX_TIME_MS
    IN  /\ valid => SentIn(t) = <<"channel_time set min", "channel_time set max">>
        /\ ~valid => /\ SentIn(t) = <<>>
                      /\ r.status_msg \in ValidationMessages
                      /\ [r EXCEPT !.status_msg = d.status_msg] = d
        /\ valid /\ env.ret1 /\ env.ret2 =>
                /\ r.saved /\ r.status_msg = ""
                /\ r.min_value = d.edited_min /\ r.max_value = d.edited_max
        /\ valid /\ ~(env.ret1 /\ env.ret2) =>
                /\ r.status_msg = "Send failed!"
                /\ [r EXCEPT !.status_msg = d.status_msg] = d

Eliciting ==
    [c \in {"channel_time read min", "channel_time read max", "wifi_connect",
            "start_wardrive_promisc", "start_wardrive"} |->
        CASE c \in {"channel_time read min", "channel_time read max"} -> {"channel_time"}
          [] c = "wifi_connect" -> {"network_info", "data_detail"}
          [] c = "start_wardrive_promisc" -> {"wardrive"}
          [] c = "start_wardrive" -> {"wardrive_log"}]

\* the send at position i of the trace comes after the register at j with the
\* slot untouched in between
RegisteredBefore(j, i) ==
    /\ j < i
    /\ \A k \in Calls(tr, "register") \cup Calls(tr, "clear") : ~(j < k /\ k < i)

\* C36: every screen that expects response lines registers its line consumer
\* before it sends the command that elicits them, so a line dispatched after
\* the send finds the slot holding that consumer: not empty, not another's.
C36_RegisterBeforeSend ==
    \A i \in Calls(tr, "send") \cup Calls(tr, "send_fail") :
        tr[i].a \in DOMAIN Eliciting =>
            \E j \in Calls(tr, "register") :
                /\ RegisteredBefore(j, i)
                /\ tr[j].a \in Eliciting[tr[i].a]
                /\ scr[tr[j].id].ctx /\ scr[tr[j].id].kind = tr[j].a
                /\ slot = [cb |-> tr[j].a, ctx |-> tr[j].id]

\* the password was submitted: the text-input screen is popped, network info
\* has registered and then sent wifi_connect
C36_Witness ==
    /\ op = "key" /\ Calls(tr, "on_destroy") # {}
    /\ slot.cb = "network_info"
    /\ \E i \in Calls(tr, "send") : tr[i].a = "wifi_connect"

\* the top screen is a text-input screen holding text and a submit handler
SubmitTop ==
    /\ scr[Top(World)].kind = "text_input" /\ scr[Top(World)].ctx
    /\ scr[Top(World)].cursor_pos > 0 /\ scr[Top(World)].on_submit # 0

\* ENTER on the text-input screen on top
Submitted(env) == TextInputOnKey(Enter(World, "main", "key"), Top(World), "ENTER", env)

\* in the trace t the pop of screen t_id resumed screen n before n registered
ResumedThenRegistered(t, t_id, n) ==
    \E i \in CallsOn(t, "on_destroy", t_id), j \in CallsOn(t, "on_resume", n),
       k \in CallsOn(t, "register", n) :
        /\ i < j /\ j < k
        /\ \A m \in Calls(t, "draw") : m < k /\ t[m].id = n => j < m

\* C37: ENTER on a text-input screen opened by network info runs
\* on_password_submitted, which pops the text-input screen from inside its own
\* key handler. The submitted text is copied before the pop frees its buffer;
\* network info's on_resume runs, in the state it was left in, before it
\* enters STATE_CONNECTING and registers; and once on_submit has returned the
\* text-input handler touches neither its freed context nor its freed screen.
C37_SubmitPopsSafely ==
    SubmitTop =>
        \A env \in EnvsFor({"ret1"}) :
            LET t == Top(World)
                n == scr[t].on_submit
                r == Submitted(env)
                popped == ScreenManagerPop(Enter(World, "main", "key"), env)
            IN  /\ r.scr[n].password = scr[t].input
                /\ r.scr[t] = NoScreen /\ Top(r) = n
                /\ popped.scr[n].state = scr[n].state /\ scr[n].state # "connecting"
                /\ ResumedThenRegistered(r.tr, t, n)
                /\ r.scr[n].state = "connecting"
                /\ r.slot = [cb |-> "network_info", ctx |-> n]
                /\ Calls(r.tr, "uaf") = {} /\ Calls(r.tr, "double_free") = {}
                /\ r.tr[Len(r.tr)].e \in {"send", "send_fail"}
                /\ r.tr[Len(r.tr)].a = "wifi_connect"

\* a password was submitted: the text-input screen is gone, network info is
\* on top in STATE_CONNECTING with the typed text as its password
C37_Witness ==
    /\ op = "key" /\ scr[Top(World)].kind = "network_info"
    /\ scr[Top(World)].state = "connecting" /\ scr[Top(World)].password # <<>>
    /\ \E i \in Calls(tr, "on_destroy") : scr[tr[i].id] = NoScreen
    /\ Calls(tr, "on_resume") # {}

\* the screens with a connect state machine, and response lines with each
\* combination of the three markers
ConnectKinds == {"network_info", "data_detail"}
ConnectLines ==
    {L_success, L_failed, L_other, S_SUCCESS, S_Connected,
     S_Connected \o <<" ">> \o S_SUCCESS,
     S_FAILED \o <<" ">> \o S_SUCCESS,
     S_FAILED \o <<" ">> \o L_success}

ConnectLine(w, id, line) ==
    IF w.scr[id].kind = "network_info"
    THEN NetworkInfoUartLineCallback(w, id, line)
    ELSE DataDetailUartLineCallback(w, id, line)

\* what a line does to the connect state machine of screen id
LineLaw(id) ==
    \A line \in ConnectLines :
        LET w == Enter(World, "rx", "line")
            r == ConnectLine(w, id, line)
            ok == Contains(line, S_SUCCESS) /\ Contains(line, S_Connected)
        IN  IF scr[id].state = "connecting" /\ (ok \/ Contains(line, S_FAILED))
            THEN /\ r.scr[id].state = "result" /\ r.scr[id].success = ok
                 /\ r.wifi = ok /\ r.scr[id].needs_redraw
            ELSE r = w

\* what a key does while screen id, on top, is connecting
ConnectingKeyLaw(id) ==
    scr[id].state = "connecting" /\ Top(World) = id =>
        \A key \in Keys \ {"ESC"} :
            \A env \in EnvsFor(RelKey(scr[id].kind, key, NoChoice)) :
                LET w == Enter(World, "main", "key")
                IN  OnKey(w, id, key, env, NoChoice) = w

\* screen id enters STATE_RESULT in this step
EntersResult(id) ==
    /\ scr'[id].kind \in ConnectKinds /\ scr'[id].state = "result"
    /\ ~(scr[id].kind = scr'[id].kind /\ scr[id].state = "result")

\* C38: in the network-info and data-detail connect state machines,
\* STATE_RESULT is entered only from STATE_CONNECTING, by a delivered line
\* that holds both 'SUCCESS:' and 'Connected' (success = true) or otherwise
\* holds 'FAILED:' (success = false); a line delivered in any other state
\* changes nothing; in STATE_CONNECTING every key except ESC changes nothing.
C38_ConnectStateMachine ==
    [][\A id \in Ids :
          /\ scr[id].kind \in ConnectKinds /\ scr[id].ctx
                => LineLaw(id) /\ ConnectingKeyLaw(id)
          /\ EntersResult(id)
                => /\ scr[id].kind = scr'[id].kind /\ scr[id].state = "connecting"
                   /\ op' = "line" /\ slot = [cb |-> scr[id].kind, ctx |-> id]]_vars

\* a data-detail connection attempt ended with a 'FAILED:' line
C38_Witness ==
    /\ op = "line" /\ ~wifi
    /\ \E id \in Ids :
          /\ scr[id].kind = "data_detail" /\ scr[id].state = "result"
          /\ ~scr[id].success /\ CallsOn(tr, "dirty_set", id) # {}

\* the live text-input contexts, and the one on top
TextInputs == {id \in Ids : scr[id].kind = "text_input" /\ scr[id].ctx}
TextKey(key, env) == TextInputOnKey(Enter(World, "main", "key"), Top(World), key, env)

\* input is a string of cursor_pos characters: the NUL sits at cursor_pos
\* and nowhere before it
WellFormedInput(d) ==
    /\ 0 <= d.cursor_pos /\ d.cursor_pos <= MaxInputLen
    /\ Len(d.input) = d.cursor_pos
    /\ \A i \in DOMAIN d.input : d.input[i] # ""

\* on_submit ran once with the input of screen t: one pop of t, one register
\* and one send, and the text it was handed is the stored password
SubmittedOnce(r, t) ==
    /\ Cardinality(CallsOn(r.tr, "on_destroy", t)) = 1
    /\ Cardinality(Calls(r.tr, "register")) = 1
    /\ Cardinality(Calls(r.tr, "send") \cup Calls(r.tr, "send_fail")) = 1
    /\ r.scr[scr[t].on_submit].password = scr[t].input

\* C39: on the text-input screen, after any keys, 0 <= cursor_pos <=
\* TEXT_INPUT_MAX_LEN, input[cursor_pos] is the terminating NUL and
\* strlen(input) = cursor_pos; BACKSPACE and DEL on an empty input change
\* nothing; ENTER invokes on_submit, once and with the current input, only
\* when cursor_pos > 0.
C39_TextInputWellFormed ==
    /\ \A id \in TextInputs : WellFormedInput(scr[id])
    /\ Top(World) \in TextInputs =>
          LET t == Top(World)
              w == Enter(World, "main", "key")
          IN  /\ scr[t].cursor_pos = 0 =>
                    \A key \in {"BACKSPACE", "DEL", "ENTER"} : TextKey(key, AllOk) = w
              /\ \A env \in EnvsFor({"ret1"}) :
                    IF scr[t].cursor_pos > 0 /\ scr[t].on_submit # 0
                    THEN SubmittedOnce(TextKey("ENTER", env), t)
                    ELSE TextKey("ENTER", env) = w

\* the input is full: a character was typed and the next one is refused
C39_Witness ==
    /\ Top(World) \in TextInputs /\ op = "key"
    /\ scr[Top(World)].cursor_pos = MaxInputLen
    /\ CallsOn(tr, "draw", Top(World)) # {}
    /\ TextKey("Q", AllOk) = Enter(World, "main", "key")

\* the live handshaker contexts
Handshakers == {id \in Ids : scr[id].kind = "handshaker" /\ scr[id].ctx}

\* the SSID a capture line names, cut to what a slot holds; <<"-">> stands
\* for a line without the marker
LineSsid(line) ==
    LET at == StrStr(line, S_handshake)
        rest == SubSeq(line, at + Len(S_handshake), Len(line))
        word == IF \E i \in DOMAIN rest : rest[i] = " "
                THEN SubSeq(rest, 1, (CHOOSE i \in DOMAIN rest :
                                        /\ rest[i] = " "
                                        /\ \A j \in 1..(i - 1) : rest[j] # " ") - 1)
                ELSE rest
    IN  IF at = 0 THEN <<"-">>
        ELSE SubSeq(word, 1, IF Len(word) < MAX_SSID_LEN THEN Len(word) ELSE MAX_SSID_LEN - 1)

CapturedWellFormed(cap) ==
    /\ Len(cap) \in 0..MAX_CAPTURED
    /\ \A i, j \in DOMAIN cap : i # j => cap[i] # cap[j]
    /\ \A i \in DOMAIN cap : Len(cap[i]) < MAX_SSID_LEN

\* C40: on the handshaker screen, after any lines, captured_count is within
\* 0..MAX_CAPTURED, the SSIDs stored below captured_count are pairwise
\* distinct and each shorter than MAX_SSID_LEN; a capture line for an SSID
\* already stored, and any line once MAX_CAPTURED are stored, changes
\* nothing: captured_count and needs_redraw stay as they are.
C40_CapturedBounded ==
    \A id \in Handshakers :
        /\ CapturedWellFormed(scr[id].captured)
        /\ \A line \in HsLines :
              LET w == Enter(World, "rx", "line")
                  r == HandshakerUartLineCallback(w, id, line)
                  known == \E i \in DOMAIN scr[id].captured :
                               scr[id].captured[i] = LineSsid(line)
              IN  /\ CapturedWellFormed(r.scr[id].captured)
                  /\ known \/ Len(scr[id].captured) = MAX_CAPTURED => r = w

\* all slots are taken, the timer has repainted, and the line just
\* delivered left the flag clear
C40_Witness ==
    /\ op = "line" /\ Calls(tr, "dirty_set") = {}
    /\ \E id \in Handshakers :
          /\ slot.ctx = id /\ CallsOn(tr, "invoke", id) # {}
          /\ Len(scr[id].captured) = MAX_CAPTURED /\ ~scr[id].needs_redraw
          /\ \E i \in DOMAIN scr[id].captured : Len(scr[id].captured[i]) = MAX_SSID_LEN - 1

====
